---- MODULE Spec2Model ----
(***************************************************************************)
(* Model of the computational core of crypto-volatility:                   *)
(*   src/src/calculators/volatility.ts  (VolatilityCalculator)             *)
(*   src/src/calculators/dvol.ts        (DVOLCalculator)                   *)
(*                                                                         *)
(* A JavaScript number is modelled as a record [k, m, e]: k is "num" for a *)
(* finite value m * 10^e with a mantissa m of eight decimal digits, or one *)
(* of "nan", "inf", "ninf" for NaN, +Infinity and -Infinity (m = e = 0).   *)
(* The arithmetic follows IEEE-754 for the special values and truncates    *)
(* finite results toward zero at the last digit of the mantissa.           *)
(***************************************************************************)
EXTENDS Integers, Sequences, FiniteSets, TLC

----------------------------------------------------------------------------
(* Bounds of the model *)

\* longest series whose prices are drawn freely from Prices
MaxLen == 2

\* longest series built by repeating a short pattern of valid prices
MaxPoints == 12

\* the longest vector of log returns an estimator is applied to directly
MaxReturns == 3

----------------------------------------------------------------------------
(* JavaScript numbers: decimal floating point of DIGITS significant digits *)

\* a finite number is m * 10^e with m = 0 = e or MANT_MIN <= |m| < MANT_MAX
MANT_MIN == 10000000
MANT_MAX == 100000000

\* square root of MANT_MAX: the digit base of the double-width products
HALF == 10000

NaN == [k |-> "nan", m |-> 0, e |-> 0]
PosInf == [k |-> "inf", m |-> 0, e |-> 0]
NegInf == [k |-> "ninf", m |-> 0, e |-> 0]

AbsInt(i) == IF i < 0 THEN -i ELSE i

SgnInt(i) == IF i > 0 THEN 1 ELSE IF i < 0 THEN -1 ELSE 0

RECURSIVE Pow10(_)
Pow10(n) == IF n = 0 THEN 1 ELSE 10 * Pow10(n - 1)

\* the normalized mantissa and exponent of x * 10^e, x > 0, truncating
RECURSIVE NormPos(_, _)
NormPos(x, e) ==
  IF x >= MANT_MAX THEN NormPos(x \div 10, e + 1)
  ELSE IF x < MANT_MIN THEN NormPos(x * 10, e - 1)
  ELSE [m |-> x, e |-> e]

\* the finite number m * 10^e, for any integer m
Dec(m, e) ==
  IF m = 0 THEN [k |-> "num", m |-> 0, e |-> 0]
  ELSE LET n == NormPos(AbsInt(m), e)
       IN [k |-> "num", m |-> SgnInt(m) * n.m, e |-> n.e]

\* the finite whole number n
Num(n) == Dec(n, 0)

Zero == Num(0)

One == Num(1)

IsNaN(a) == a.k = "nan"

\* sign of a number that is not NaN: -1, 0 or 1
Sgn(a) ==
  CASE a.k = "inf" -> 1
    [] a.k = "ninf" -> -1
    [] OTHER -> SgnInt(a.m)

SignedInf(s) == IF s < 0 THEN NegInf ELSE PosInf

Neg(a) ==
  CASE a.k = "nan" -> NaN
    [] a.k = "inf" -> NegInf
    [] a.k = "ninf" -> PosInf
    [] OTHER -> [a EXCEPT !.m = -a.m]

\* a + b for finite a, b with a.e >= b.e, neither zero: one guard digit
AddAligned(a, b) ==
  LET shift == a.e - b.e
  IN IF shift > 8 THEN a
     ELSE Dec(a.m * 10
                + SgnInt(b.m) * ((AbsInt(b.m) * 10) \div Pow10(shift)),
              a.e - 1)

Add(a, b) ==
  CASE IsNaN(a) \/ IsNaN(b) -> NaN
    [] a.k = "num" /\ b.k = "num" ->
         IF a.m = 0 THEN b
         ELSE IF b.m = 0 THEN a
         ELSE IF a.e >= b.e THEN AddAligned(a, b) ELSE AddAligned(b, a)
    [] a.k = "num" -> b
    [] b.k = "num" -> a
    [] OTHER -> IF a.k = b.k THEN a ELSE NaN

Sub(a, b) == Add(a, Neg(b))

\* a < b, a === b, a <= b of JavaScript: false as soon as an operand is NaN
Lt(a, b) == ~IsNaN(a) /\ ~IsNaN(b) /\ a # b /\ Sgn(Sub(a, b)) < 0

StrictEq(a, b) == ~IsNaN(a) /\ ~IsNaN(b) /\ a = b

Le(a, b) == Lt(a, b) \/ StrictEq(a, b)

\* (x * y) \div MANT_MAX and (x * y) % MANT_MAX for 0 <= x, y < MANT_MAX
MulHigh(x, y) ==
  LET x1 == x \div HALF
      x0 == x % HALF
      y1 == y \div HALF
      y0 == y % HALF
  IN x1 * y1 + (x1 * y0 + x0 * y1 + (x0 * y0) \div HALF) \div HALF

MulLow(x, y) ==
  LET x1 == x \div HALF
      x0 == x % HALF
      y1 == y \div HALF
      y0 == y % HALF
  IN (x0 * y0 + ((x1 * y0 + x0 * y1) % HALF) * HALF) % MANT_MAX

Mul(a, b) ==
  CASE IsNaN(a) \/ IsNaN(b) -> NaN
    [] a.k = "num" /\ b.k = "num" ->
         Dec(Sgn(a) * Sgn(b) * MulHigh(AbsInt(a.m), AbsInt(b.m)), a.e + b.e + 8)
    [] OTHER -> IF Sgn(a) * Sgn(b) = 0 THEN NaN ELSE SignedInf(Sgn(a) * Sgn(b))

\* the quotient acc.d1d2... of (acc + r / y), digits more decimal digits
RECURSIVE DivDigits(_, _, _, _)
DivDigits(r, y, acc, digits) ==
  IF digits = 0 THEN acc
  ELSE DivDigits((r * 10) % y, y, acc * 10 + (r * 10) \div y, digits - 1)

\* x / y to eight decimals, as an integer, for MANT_MIN <= x, y < MANT_MAX
DivMantissa(x, y) == DivDigits(x % y, y, x \div y, 8)

Div(a, b) ==
  CASE IsNaN(a) \/ IsNaN(b) -> NaN
    [] a.k = "num" /\ b.k = "num" ->
         IF b.m = 0
         THEN IF a.m = 0 THEN NaN ELSE SignedInf(Sgn(a))
         ELSE IF a.m = 0 THEN Zero
         ELSE Dec(Sgn(a) * Sgn(b) * DivMantissa(AbsInt(a.m), AbsInt(b.m)),
                  a.e - b.e - 8)
    [] a.k = "num" -> Zero
    [] b.k = "num" -> SignedInf(Sgn(a) * (IF Sgn(b) < 0 THEN -1 ELSE 1))
    [] OTHER -> NaN

\* Math.abs
MathAbs(a) ==
  CASE a.k = "nan" -> NaN
    [] a.k = "num" -> [a EXCEPT !.m = AbsInt(a.m)]
    [] OTHER -> PosInf

\* Math.max and Math.min of two numbers: NaN as soon as an operand is NaN
MathMax(a, b) == IF IsNaN(a) \/ IsNaN(b) THEN NaN ELSE IF Lt(a, b) THEN b ELSE a

MathMin(a, b) == IF IsNaN(a) \/ IsNaN(b) THEN NaN ELSE IF Lt(b, a) THEN b ELSE a

\* r * r <= x * MANT_MAX / unit, exactly, for unit = 1 or 10
SquareAtMost(r, x, unit) ==
  LET high == MulHigh(r, r) * unit + (MulLow(r, r) * unit) \div MANT_MAX
      low == (MulLow(r, r) * unit) % MANT_MAX
  IN high < x \/ (high = x /\ low = 0)

\* largest r in lo..hi with SquareAtMost(r, x, unit)  (lo satisfies it)
RECURSIVE SqrtSearch(_, _, _, _)
SqrtSearch(lo, hi, x, unit) ==
  IF lo >= hi THEN lo
  ELSE LET mid == (lo + hi + 1) \div 2
       IN IF SquareAtMost(mid, x, unit)
          THEN SqrtSearch(mid, hi, x, unit)
          ELSE SqrtSearch(lo, mid - 1, x, unit)

\* sqrt(m * 10^e): e even, sqrt(m * 10^8) * 10^(e/2 - 4);
\*                 e odd,  sqrt(m * 10^7) * 10^((e+1)/2 - 4)
SqrtPos(a) ==
  IF a.e % 2 = 0
  THEN Dec(SqrtSearch(0, MANT_MAX - 1, a.m, 1), a.e \div 2 - 4)
  ELSE Dec(SqrtSearch(0, MANT_MAX - 1, a.m, 10), (a.e + 1) \div 2 - 4)

\* Math.sqrt
MathSqrt(a) ==
  CASE a.k = "nan" -> NaN
    [] a.k = "inf" -> PosInf
    [] a.k = "ninf" -> NaN
    [] OTHER -> IF a.m < 0 THEN NaN ELSE IF a.m = 0 THEN Zero ELSE SqrtPos(a)

\* Math.pow(a, 2)
Square(a) == Mul(a, a)

\* sum over j >= 0 of z^(2j+1)/(2j+1), from the term zpow = z^(2j+1) on, in
\* units of 1 / MANT_MAX, until the terms vanish
RECURSIVE AtanhSeries(_, _, _)
AtanhSeries(zpow, z2, j) ==
  IF zpow = 0 THEN 0
  ELSE zpow \div (2 * j + 1) + AtanhSeries(MulHigh(zpow, z2), z2, j + 1)

\* a finite 0 <= a < 1 in units of 1 / MANT_MAX
ToUnits(a) ==
  IF a.m = 0 \/ a.e < -16 THEN 0 ELSE a.m \div Pow10(-8 - a.e)

\* ln 10
LN10 == Dec(23025851, -7)

\* ln a for a finite a >= 1:  ln x = 2 atanh((x - 1) / (x + 1)) below 10, and
\* ln(m * 10^e) = ln(m * 10^-7) + (e + 7) ln 10 from 10 on
LogAboveOne(a) ==
  LET x == [a EXCEPT !.e = -7]
      z == ToUnits(Div(Sub(x, One), Add(x, One)))
      lnx == Dec(2 * AtanhSeries(z, MulHigh(z, z), 0), -8)
  IN IF a.e = -7 THEN lnx ELSE Add(lnx, Mul(Num(a.e + 7), LN10))

\* Math.log
MathLog(a) ==
  CASE a.k = "nan" -> NaN
    [] a.k = "inf" -> PosInf
    [] a.k = "ninf" -> NaN
    [] OTHER ->
         IF a.m < 0 THEN NaN
         ELSE IF a.m = 0 THEN NegInf
         ELSE IF a.e >= -7 THEN LogAboveOne(a)
         ELSE Neg(LogAboveOne(Div(One, a)))

\* Number.isFinite
NumberIsFinite(a) == a.k = "num"

----------------------------------------------------------------------------
(* Results of a call: a returned value or a thrown Error *)

Return(value) == [ok |-> TRUE, error |-> "", value |-> value]

Throw(message) == [ok |-> FALSE, error |-> message, value |-> <<>>]

\* array.push(x)
Push(array, x) == Append(array, x)

\* array.slice(from, to), 0 <= from <= to <= length (0-based, to excluded)
Slice(array, from, to) == SubSeq(array, from + 1, to)

\* array.slice(-count), 0 < count <= length
SliceLast(array, count) == SubSeq(array, Len(array) - count + 1, Len(array))

----------------------------------------------------------------------------
(* VolatilityCalculator: src/src/calculators/volatility.ts                  *)
(*                                                                          *)
(* A function that calls others is split where it binds a const: the      *)
(* operator named after the function computes the bound value and hands it *)
(* to the operator that models the rest of the body.                        *)

\* priceData.map(data => data.price)
PricesOf(priceData) == [i \in 1..Len(priceData) |-> priceData[i].price]

RECURSIVE LogReturnsLoop(_, _, _)

\* variant: the logarithm of the price itself, not of the ratio
LogReturnsLoopOfLevels(prices, i, returns) ==
  IF ~(i < Len(prices)) THEN Return(returns)
  ELSE IF Le(prices[i], Zero) \/ Le(prices[i + 1], Zero)
       THEN Throw("Prices must be positive")
       ELSE LogReturnsLoop(prices, i + 1,
                           Push(returns, MathLog(prices[i + 1])))

\* variant: the ratio of the previous price to the current one
LogReturnsLoopInverted(prices, i, returns) ==
  IF ~(i < Len(prices)) THEN Return(returns)
  ELSE IF Le(prices[i], Zero) \/ Le(prices[i + 1], Zero)
       THEN Throw("Prices must be positive")
       ELSE LogReturnsLoop(prices, i + 1,
                           Push(returns, MathLog(Div(prices[i], prices[i + 1]))))

\* variant: only the current price is checked
LogReturnsLoopCurrentOnly(prices, i, returns) ==
  IF ~(i < Len(prices)) THEN Return(returns)
  ELSE IF Le(prices[i + 1], Zero)
       THEN Throw("Prices must be positive")
       ELSE LogReturnsLoop(prices, i + 1,
                           Push(returns, MathLog(Div(prices[i + 1], prices[i]))))

\* the loop of calculateLogReturns, before iteration i (0-based index i)
LogReturnsLoop(prices, i, returns) ==
  IF ~(i < Len(prices)) THEN Return(returns)
  ELSE IF Le(prices[i], Zero) \/ Le(prices[i + 1], Zero)
       THEN Throw("Prices must be positive")
       ELSE LogReturnsLoop(prices, i + 1,
                           Push(returns, MathLog(Div(prices[i + 1], prices[i]))))

calculateLogReturns(prices) ==
  IF Len(prices) < 2
  THEN Throw("Need at least 2 price points to calculate returns")
  ELSE LogReturnsLoop(prices, 1, <<>>)

\* values.reduce((sum, value) => sum + value, 0), from index i (1-based) on
RECURSIVE SumFrom(_, _, _)
SumFrom(values, i, sum) ==
  IF i > Len(values) THEN sum
  ELSE SumFrom(values, i + 1, Add(sum, values[i]))

calculateMean(values) ==
  IF Len(values) = 0
  THEN Throw("Cannot calculate mean of empty array")
  ELSE Return(Div(SumFrom(values, 1, Zero), Num(Len(values))))

\* calculateVariance once mean is bound
VarianceAbout(values, mean) ==
  IF ~mean.ok THEN mean
  ELSE Return(Div(SumFrom([i \in 1..Len(values) |->
                             Square(Sub(values[i], mean.value))], 1, Zero),
                  Num(Len(values) - 1)))

calculateVariance(values) ==
  IF Len(values) < 2
  THEN Throw("Need at least 2 values to calculate variance")
  ELSE VarianceAbout(values, calculateMean(values))

\* Math.sqrt(variance) unless the variance was not returned
SqrtOfResult(variance) ==
  IF ~variance.ok THEN variance ELSE Return(MathSqrt(variance.value))

calculateStandardDeviation(values) == SqrtOfResult(calculateVariance(values))

annualizeVolatility(volatility, periodsPerYear) ==
  IF periodsPerYear <= 0
  THEN Throw("Periods per year must be positive")
  ELSE Return(Mul(volatility, MathSqrt(Num(periodsPerYear))))

\* the result is a whole number of periods
getPeriodsPerYear(period, dataPoints) ==
  CASE period = "1d" -> 365 * 24
    [] period = "30d" -> 365
    [] period = "365d" -> 365
    [] OTHER -> IF 365 < dataPoints * 12 THEN 365 ELSE dataPoints * 12

\* calculateMetrics once annualizedVolatility is bound
MetricsResult(variance, volatility, annualizedVolatility) ==
  IF ~annualizedVolatility.ok THEN annualizedVolatility
  ELSE Return([volatility |-> Mul(volatility, Num(100)),
               variance |-> Mul(variance, Num(10000)),
               annualizedVolatility |->
                 Mul(annualizedVolatility.value, Num(100))])

\* calculateMetrics once variance and periodsPerYear are bound
MetricsOfVariance(variance, periodsPerYear) ==
  IF ~variance.ok THEN variance
  ELSE MetricsResult(variance.value, MathSqrt(variance.value),
         annualizeVolatility(MathSqrt(variance.value), periodsPerYear))

\* variant: the number of prices passed to getPeriodsPerYear
MetricsOfReturnsByPoints(logReturns, period) ==
  IF ~logReturns.ok THEN logReturns
  ELSE MetricsOfVariance(calculateVariance(logReturns.value),
                         getPeriodsPerYear(period, Len(logReturns.value) + 1))

\* calculateMetrics once logReturns is bound
MetricsOfReturns(logReturns, period) ==
  IF ~logReturns.ok THEN logReturns
  ELSE MetricsOfVariance(calculateVariance(logReturns.value),
                         getPeriodsPerYear(period, Len(logReturns.value)))

calculateMetrics(priceData, period) ==
  IF Len(priceData) < 2
  THEN Throw("Need at least 2 price points")
  ELSE MetricsOfReturns(calculateLogReturns(PricesOf(priceData)), period)

----------------------------------------------------------------------------
(* DVOLCalculator: src/src/calculators/dvol.ts *)

DEFAULT_WINDOW_SIZE == 30

DEFAULT_EWMA_LAMBDA == Dec(94, -2)

DEFAULT_GARCH_PARAMS ==
  [omega |-> Dec(1, -6), alpha |-> Dec(1, -1), beta |-> Dec(85, -2)]

ANNUALIZATION_FACTOR == Num(365)

Hundred == Num(100)

\* priceData.filter(data => !Number.isFinite(data.price) || data.price <= 0)
InvalidPricesOf(priceData) ==
  {i \in 1..Len(priceData) :
     ~NumberIsFinite(priceData[i].price) \/ Le(priceData[i].price, Zero)}

\* variant: ewma held to the minimum of simple
MinDataPointsWithoutEWMA(method) ==
  IF method = "garch" THEN 10 ELSE 2

MinDataPoints(method) ==
  IF method = "garch" THEN 10 ELSE IF method = "ewma" THEN 5 ELSE 2

\* variant: the prices tested before the length
validateInputPricesFirst(priceData, method) ==
  IF InvalidPricesOf(priceData) # {}
  THEN "All prices must be positive finite numbers"
  ELSE IF Len(priceData) = 0 THEN "Price data cannot be empty"
  ELSE IF Len(priceData) < 2
       THEN "Need at least 2 price points for DVOL calculation"
  ELSE IF Len(priceData) < MinDataPoints(method)
       THEN "method requires at least minDataPoints data points"
  ELSE ""

\* validateInput: the message of the Error thrown, "" when none is
validateInput(priceData, method) ==
  IF Len(priceData) = 0 THEN "Price data cannot be empty"
  ELSE IF Len(priceData) < 2
       THEN "Need at least 2 price points for DVOL calculation"
  ELSE IF Len(priceData) < MinDataPoints(method)
       THEN "method requires at least minDataPoints data points"
  ELSE IF InvalidPricesOf(priceData) # {}
       THEN "All prices must be positive finite numbers"
  ELSE ""

\* ((dvol - minDVOL) / (maxDVOL - minDVOL)) * 100
NormalizedIndex(dvol) ==
  Mul(Div(Sub(dvol, Num(10)), Sub(Num(200), Num(10))), Hundred)

\* variant: the index left unclamped
calculateDVOLIndexUnclamped(dvol) ==
  NormalizedIndex(dvol)

calculateDVOLIndex(dvol) ==
  MathMax(Zero, MathMin(Hundred, NormalizedIndex(dvol)))

\* calculateStability once mean and std are bound
StabilityOf(mean, std) ==
  IF ~mean.ok THEN mean
  ELSE IF ~std.ok THEN std
  ELSE Return(MathMax(Zero,
         MathMin(Hundred,
           Sub(Hundred, Mul(Div(std.value, mean.value), Hundred)))))

calculateStability(variances) ==
  IF Len(variances) < 2 THEN Return(Num(50))
  ELSE StabilityOf(calculateMean(variances),
                   calculateStandardDeviation(variances))

\* Math.max(0, 100 - (meanDeviation + stdDeviation) * 50)
QualityScore(residualMean, residualStd) ==
  MathMax(Zero,
    Sub(Hundred,
        Mul(Add(MathAbs(residualMean), MathAbs(Sub(residualStd, One))),
            Num(50))))

\* calculateGARCHConfidence once residualMean, residualStd and
\* varianceStability are bound
GARCHConfidenceOf(residualMean, residualStd, varianceStability) ==
  IF ~residualMean.ok THEN residualMean
  ELSE IF ~residualStd.ok THEN residualStd
  ELSE IF ~varianceStability.ok THEN varianceStability
  ELSE Return(Div(Add(QualityScore(residualMean.value, residualStd.value),
                      varianceStability.value),
                  Num(2)))

calculateGARCHConfidence(standardizedResiduals, variances) ==
  IF Len(standardizedResiduals) = 0 THEN Return(Num(50))
  ELSE GARCHConfidenceOf(calculateMean(standardizedResiduals),
                         calculateStandardDeviation(standardizedResiduals),
                         calculateStability(variances))

\* the rolling-window loop of calculateSimpleDVOL, before iteration i (0-based)
RECURSIVE SimpleLoop(_, _, _, _)

\* one iteration, once variance is bound
SimpleStep(logReturns, windowSize, i, volatilities, variance) ==
  IF ~variance.ok THEN variance
  ELSE SimpleLoop(logReturns, windowSize, i + 1,
                  Push(volatilities, MathSqrt(variance.value)))

SimpleLoop(logReturns, windowSize, i, volatilities) ==
  IF ~(i < Len(logReturns)) THEN Return(volatilities)
  ELSE SimpleStep(logReturns, windowSize, i, volatilities,
         calculateVariance(Slice(logReturns, i - windowSize + 1, i + 1)))

\* calculateSimpleDVOL once the mean and volatilityStd are bound
SimpleResult(mean, volatilityStd, annualizationFactor) ==
  IF ~mean.ok THEN mean
  ELSE IF ~volatilityStd.ok THEN volatilityStd
  ELSE Return(
    [dvol |-> Mul(Mul(mean.value, MathSqrt(annualizationFactor)), Hundred),
     confidence |->
       MathMax(Zero,
         MathMin(Hundred,
           Sub(Hundred, Mul(Div(volatilityStd.value, mean.value), Hundred))))])

\* calculateSimpleDVOL once volatilities is filled
SimpleOfVolatilities(volatilities, annualizationFactor) ==
  IF ~volatilities.ok THEN volatilities
  ELSE SimpleResult(calculateMean(volatilities.value),
                    calculateStandardDeviation(volatilities.value),
                    annualizationFactor)

\* variant: the window is compared with the number of prices
SimpleOfReturnsByPrices(logReturns, windowSize, annualizationFactor) ==
  IF ~logReturns.ok THEN logReturns
  ELSE IF Len(logReturns.value) + 1 < windowSize
       THEN Throw("Insufficient data for window size")
  ELSE SimpleOfVolatilities(
         SimpleLoop(logReturns.value, windowSize, windowSize - 1, <<>>),
         annualizationFactor)

\* calculateSimpleDVOL once logReturns is bound
SimpleOfReturns(logReturns, windowSize, annualizationFactor) ==
  IF ~logReturns.ok THEN logReturns
  ELSE IF Len(logReturns.value) < windowSize
       THEN Throw("Insufficient data for window size")
  ELSE SimpleOfVolatilities(
         SimpleLoop(logReturns.value, windowSize, windowSize - 1, <<>>),
         annualizationFactor)

calculateSimpleDVOL(priceData, windowSize, annualizationFactor) ==
  SimpleOfReturns(calculateLogReturns(PricesOf(priceData)), windowSize,
                  annualizationFactor)

\* the recursive EWMA loop, before iteration i (0-based); variances ends with
\* the current ewmaVariance
RECURSIVE EWMALoop(_, _, _, _)

\* variant: the weights lambda and 1 - lambda exchanged
EWMALoopSwapped(logReturns, lambda, i, variances) ==
  IF ~(i < Len(logReturns)) THEN variances
  ELSE EWMALoop(logReturns, lambda, i + 1,
         Push(variances,
              Add(Mul(Sub(One, lambda), variances[Len(variances)]),
                  Mul(lambda, Square(logReturns[i + 1])))))

EWMALoop(logReturns, lambda, i, variances) ==
  IF ~(i < Len(logReturns)) THEN variances
  ELSE EWMALoop(logReturns, lambda, i + 1,
         Push(variances,
              Add(Mul(lambda, variances[Len(variances)]),
                  Mul(Sub(One, lambda), Square(logReturns[i + 1])))))

\* calculateEWMADVOL once varianceStability is bound
EWMAResult(ewmaVariance, varianceStability, annualizationFactor) ==
  IF ~varianceStability.ok THEN varianceStability
  ELSE Return(
    [dvol |-> Mul(MathSqrt(Mul(ewmaVariance, annualizationFactor)), Hundred),
     confidence |-> MathMax(Zero, MathMin(Hundred, varianceStability.value))])

\* calculateEWMADVOL once variances is filled
EWMAOfVariances(variances, annualizationFactor) ==
  EWMAResult(variances[Len(variances)],
             calculateStability(
               SliceLast(variances,
                         IF 10 < Len(variances) THEN 10 ELSE Len(variances))),
             annualizationFactor)

\* calculateEWMADVOL once logReturns is bound
EWMAOfReturns(logReturns, lambda, annualizationFactor) ==
  IF ~logReturns.ok THEN logReturns
  ELSE IF Len(logReturns.value) < 2
       THEN Throw("Need at least 2 returns for EWMA calculation")
  ELSE EWMAOfVariances(
         EWMALoop(logReturns.value, lambda, 1, <<Square(logReturns.value[1])>>),
         annualizationFactor)

\* variant: the closed interval [0,1] of lambda accepted
calculateEWMADVOLClosed(priceData, lambda, annualizationFactor) ==
  IF Lt(lambda, Zero) \/ Lt(One, lambda)
  THEN Throw("EWMA lambda must be between 0 and 1")
  ELSE EWMAOfReturns(calculateLogReturns(PricesOf(priceData)), lambda,
                     annualizationFactor)

calculateEWMADVOL(priceData, lambda, annualizationFactor) ==
  IF Le(lambda, Zero) \/ Le(One, lambda)
  THEN Throw("EWMA lambda must be between 0 and 1")
  ELSE EWMAOfReturns(calculateLogReturns(PricesOf(priceData)), lambda,
                     annualizationFactor)

\* variant: the recurrence without its constant term
GARCHVarianceWithoutOmega(params, previousReturn, previousVariance) ==
  Add(Mul(params.alpha, Square(previousReturn)),
      Mul(params.beta, previousVariance))

\* omega + alpha * previousReturn^2 + beta * previousVariance
GARCHVariance(params, previousReturn, previousVariance) ==
  Add(Add(params.omega, Mul(params.alpha, Square(previousReturn))),
      Mul(params.beta, previousVariance))

\* the GARCH(1,1) loop, before iteration i (0-based); variances ends with the
\* current conditional variance
RECURSIVE GARCHLoop(_, _, _, _, _)

\* one iteration, once variance is bound
GARCHStep(logReturns, params, i, variances, standardizedResiduals, variance) ==
  GARCHLoop(logReturns, params, i + 1, Push(variances, variance),
            Push(standardizedResiduals,
                 Div(logReturns[i + 1], MathSqrt(variance))))

GARCHLoop(logReturns, params, i, variances, standardizedResiduals) ==
  IF ~(i < Len(logReturns))
  THEN [variances |-> variances, standardizedResiduals |-> standardizedResiduals]
  ELSE GARCHStep(logReturns, params, i, variances, standardizedResiduals,
                 GARCHVariance(params, logReturns[i], variances[Len(variances)]))

\* calculateGARCHDVOL once confidence is bound
GARCHResult(variance, confidence, annualizationFactor) ==
  IF ~confidence.ok THEN confidence
  ELSE Return(
    [dvol |-> Mul(MathSqrt(Mul(variance, annualizationFactor)), Hundred),
     confidence |-> confidence.value])

\* calculateGARCHDVOL once the loop has ended
GARCHOfLoop(loop, annualizationFactor) ==
  GARCHResult(loop.variances[Len(loop.variances)],
              calculateGARCHConfidence(loop.standardizedResiduals,
                                       loop.variances),
              annualizationFactor)

\* calculateGARCHDVOL once unconditionalVariance is bound
GARCHOfVariance(logReturns, params, unconditionalVariance, annualizationFactor) ==
  IF ~unconditionalVariance.ok THEN unconditionalVariance
  ELSE GARCHOfLoop(
         GARCHLoop(logReturns, params, 1, <<unconditionalVariance.value>>, <<>>),
         annualizationFactor)

\* variant: 9 returns accepted
GARCHOfReturnsNineReturns(logReturns, params, annualizationFactor) ==
  IF ~logReturns.ok THEN logReturns
  ELSE IF Len(logReturns.value) < 9
       THEN Throw("Need at least 10 returns for GARCH calculation")
  ELSE GARCHOfVariance(logReturns.value, params,
                       calculateVariance(logReturns.value), annualizationFactor)

\* calculateGARCHDVOL once logReturns is bound
GARCHOfReturns(logReturns, params, annualizationFactor) ==
  IF ~logReturns.ok THEN logReturns
  ELSE IF Len(logReturns.value) < 10
       THEN Throw("Need at least 10 returns for GARCH calculation")
  ELSE GARCHOfVariance(logReturns.value, params,
                       calculateVariance(logReturns.value), annualizationFactor)

\* variant: alpha + beta = 1 accepted
calculateGARCHDVOLUnitRoot(priceData, params, annualizationFactor) ==
  IF \/ Le(params.omega, Zero)
     \/ Lt(params.alpha, Zero)
     \/ Lt(params.beta, Zero)
     \/ Lt(One, Add(params.alpha, params.beta))
  THEN Throw("Invalid GARCH parameters")
  ELSE GARCHOfReturns(calculateLogReturns(PricesOf(priceData)), params,
                      annualizationFactor)

calculateGARCHDVOL(priceData, params, annualizationFactor) ==
  IF \/ Le(params.omega, Zero)
     \/ Lt(params.alpha, Zero)
     \/ Lt(params.beta, Zero)
     \/ Le(One, Add(params.alpha, params.beta))
  THEN Throw("Invalid GARCH parameters")
  ELSE GARCHOfReturns(calculateLogReturns(PricesOf(priceData)), params,
                      annualizationFactor)

\* options.<name>, or the default when the caller leaves it out
Option(options, name, default) ==
  IF name \in DOMAIN options THEN options[name] ELSE default

\* the switch of calculateDVOL
Estimate(priceData, method, windowSize, ewmaLambda, garchParams, annualizationFactor) ==
  CASE method = "simple" ->
         calculateSimpleDVOL(priceData, windowSize, annualizationFactor)
    [] method = "ewma" ->
         calculateEWMADVOL(priceData, ewmaLambda, annualizationFactor)
    [] method = "garch" ->
         calculateGARCHDVOL(priceData, garchParams, annualizationFactor)
    [] OTHER -> Throw("Unsupported DVOL method")

\* calculateDVOL once dvol and confidence are bound; calculatedAt, the time of
\* the call, is left out
DVOLResultOf(estimate, method, dataPoints) ==
  IF ~estimate.ok THEN estimate
  ELSE Return([dvol |-> estimate.value.dvol,
               dvolIndex |-> calculateDVOLIndex(estimate.value.dvol),
               confidence |-> estimate.value.confidence,
               method |-> method,
               dataPoints |-> dataPoints])

calculateDVOL(priceData, method, options) ==
  IF validateInput(priceData, method) # ""
  THEN Throw(validateInput(priceData, method))
  ELSE DVOLResultOf(
         Estimate(priceData, method,
                  Option(options, "windowSize", DEFAULT_WINDOW_SIZE),
                  Option(options, "ewmaLambda", DEFAULT_EWMA_LAMBDA),
                  Option(options, "garchParams", DEFAULT_GARCH_PARAMS),
                  Option(options, "annualizationFactor", ANNUALIZATION_FACTOR)),
         method, Len(priceData))

\* the numerator loop of calculateAutocorrelation, before iteration i (0-based)
RECURSIVE NumeratorLoop(_, _, _, _, _, _)
NumeratorLoop(returns, lag, mean, n, i, numerator) ==
  IF ~(i < n) THEN numerator
  ELSE NumeratorLoop(returns, lag, mean, n, i + 1,
         Add(numerator,
             Mul(Sub(returns[i + 1], mean), Sub(returns[i + lag + 1], mean))))

\* the denominator loop of calculateAutocorrelation, before iteration i
RECURSIVE DenominatorLoop(_, _, _, _)

\* variant: the denominator summed over the index range of the numerator
DenominatorLoopShort(returns, mean, i, denominator) ==
  IF ~(i < Len(returns) - 1) THEN denominator
  ELSE DenominatorLoop(returns, mean, i + 1,
         Add(denominator, Square(Sub(returns[i + 1], mean))))

DenominatorLoop(returns, mean, i, denominator) ==
  IF ~(i < Len(returns)) THEN denominator
  ELSE DenominatorLoop(returns, mean, i + 1,
         Add(denominator, Square(Sub(returns[i + 1], mean))))

\* variant: the quotient with no test of the denominator
RatioUnguarded(numerator, denominator) ==
  Div(numerator, denominator)

\* denominator === 0 ? 0 : numerator / denominator
Ratio(numerator, denominator) ==
  IF StrictEq(denominator, Zero) THEN Zero ELSE Div(numerator, denominator)

\* calculateAutocorrelation once mean is bound
AutocorrelationAbout(returns, lag, mean) ==
  IF ~mean.ok THEN mean
  ELSE Return(Ratio(NumeratorLoop(returns, lag, mean.value,
                                  Len(returns) - lag, 0, Zero),
                    DenominatorLoop(returns, mean.value, 0, Zero)))

calculateAutocorrelation(returns, lag) ==
  IF Len(returns) <= lag THEN Return(Zero)
  ELSE AutocorrelationAbout(returns, lag, calculateMean(returns))

calculateHeteroskedasticity(returns) ==
  calculateAutocorrelation(
    [i \in 1..Len(returns) |-> Mul(returns[i], returns[i])], 1)

\* Math.pow(a, 3) and Math.pow(a, 4)
Cube(a) == Mul(Mul(a, a), a)

Fourth(a) == Mul(Mul(a, a), Mul(a, a))

\* calculateSkewness once mean and std are bound
SkewnessOf(returns, mean, std) ==
  IF ~mean.ok THEN mean
  ELSE IF ~std.ok THEN std
  ELSE IF StrictEq(std.value, Zero) THEN Return(Zero)
  ELSE Return(Div(SumFrom([i \in 1..Len(returns) |->
                             Cube(Div(Sub(returns[i], mean.value), std.value))],
                          1, Zero),
                  Num(Len(returns))))

calculateSkewness(returns) ==
  SkewnessOf(returns, calculateMean(returns),
             calculateStandardDeviation(returns))

\* calculateKurtosis once mean and std are bound
KurtosisOf(returns, mean, std) ==
  IF ~mean.ok THEN mean
  ELSE IF ~std.ok THEN std
  ELSE IF StrictEq(std.value, Zero) THEN Return(Zero)
  ELSE Return(Sub(Div(SumFrom([i \in 1..Len(returns) |->
                                 Fourth(Div(Sub(returns[i], mean.value),
                                            std.value))],
                              1, Zero),
                      Num(Len(returns))),
                  Num(3)))

calculateKurtosis(returns) ==
  KurtosisOf(returns, calculateMean(returns),
             calculateStandardDeviation(returns))

\* the object calculateDiagnostics returns, its four fields evaluated in order
DiagnosticsResult(autocorrelation, heteroskedasticity, skewness, kurtosis) ==
  IF ~autocorrelation.ok THEN autocorrelation
  ELSE IF ~heteroskedasticity.ok THEN heteroskedasticity
  ELSE IF ~skewness.ok THEN skewness
  ELSE IF ~kurtosis.ok THEN kurtosis
  ELSE Return([autocorrelation |-> autocorrelation.value,
               heteroskedasticity |-> heteroskedasticity.value,
               skewness |-> skewness.value,
               kurtosis |-> kurtosis.value])

\* calculateDiagnostics once logReturns is bound
DiagnosticsOfReturns(logReturns) ==
  IF ~logReturns.ok THEN logReturns
  ELSE DiagnosticsResult(calculateAutocorrelation(logReturns.value, 1),
                         calculateHeteroskedasticity(logReturns.value),
                         calculateSkewness(logReturns.value),
                         calculateKurtosis(logReturns.value))

calculateDiagnostics(priceData) ==
  DiagnosticsOfReturns(calculateLogReturns(PricesOf(priceData)))

----------------------------------------------------------------------------
(* Inputs of the calls *)

ValidPrices == {Num(100), Num(101), Num(130)}

\* zero, a negative price, NaN and Infinity
InvalidPrices == {Zero, Num(-100), NaN, PosInf}

Prices == ValidPrices \cup InvalidPrices

\* the PriceData[] whose prices are ps, one point per second
MakeSeries(ps) == [i \in 1..Len(ps) |-> [timestamp |-> i * 1000, price |-> ps[i]]]

\* every series of at most MaxLen points over Prices
ShortSeries == UNION {[1..n -> Prices] : n \in 0..MaxLen}

\* the first n prices of the endless repetition of pattern
Repeat(pattern, n) == [i \in 1..n |-> pattern[((i - 1) % Len(pattern)) + 1]]

Patterns ==
  [1..3 -> ValidPrices] \cup {<<Num(100), Num(101)>>, <<Num(100), Num(130)>>}

LongLengths == (MaxLen + 1)..MaxPoints

\* series of valid prices of up to MaxPoints points
LongSeries == {Repeat(pattern, n) : pattern \in Patterns, n \in LongLengths}

\* a long series with its first or its last price replaced by an invalid one
CorruptedSeries ==
  UNION {{[Repeat(pattern, n) EXCEPT ![pos] = bad] :
            pattern \in {<<Num(100)>>, <<Num(100), Num(101)>>},
            pos \in {1, n}, bad \in InvalidPrices} : n \in LongLengths}

AllSeries ==
  {MakeSeries(ps) : ps \in ShortSeries \cup LongSeries \cup CorruptedSeries}

Methods == {"simple", "ewma", "garch"}

\* the methods a caller can pass: the DVOLMethod tags and an unknown tag
MethodArguments == Methods \cup {"other"}

Periods == {"1d", "30d", "365d", "7d"}

WindowSizes == {1, 2, 3, 5, 10}

Lambdas == {Dec(-5, -1), Zero, Dec(1, -6), Dec(5, -1), Dec(999999, -6), One,
            Dec(15, -1)}

GarchParamSets ==
  {[omega |-> Dec(1, -4), alpha |-> Dec(2, -1), beta |-> Dec(7, -1)],
   [omega |-> Dec(1, -6), alpha |-> Zero, beta |-> Zero],
   [omega |-> Zero, alpha |-> Dec(1, -1), beta |-> Dec(85, -2)],
   [omega |-> Dec(-1, -6), alpha |-> Dec(1, -1), beta |-> Dec(85, -2)],
   [omega |-> Dec(1, -6), alpha |-> Dec(-1, -1), beta |-> Dec(85, -2)],
   [omega |-> Dec(1, -6), alpha |-> Dec(1, -1), beta |-> Dec(-1, -1)],
   [omega |-> Dec(1, -6), alpha |-> Dec(15, -2), beta |-> Dec(85, -2)],
   [omega |-> Dec(1, -6), alpha |-> Dec(5, -1), beta |-> Dec(6, -1)]}

AnnualizationFactors == {Num(252)}

\* the DVOLOptions a caller passes: none, or one option set
NoOptions == [name \in {} |-> 0]

OptionsArguments ==
  {NoOptions}
    \cup {[windowSize |-> w] : w \in WindowSizes}
    \cup {[ewmaLambda |-> l] : l \in Lambdas}
    \cup {[garchParams |-> g] : g \in GarchParamSets}
    \cup {[annualizationFactor |-> a] : a \in AnnualizationFactors}

----------------------------------------------------------------------------
(* The state machine: a caller holding one series calls the public         *)
(* operations one after the other.                                          *)

VARIABLES
  priceData,  \* the series the caller holds
  pc,         \* "idle" between calls, "returned" when a call has ended
  call,       \* the last call: operation and arguments
  outcome,    \* what the last call returned or threw
  instance,         \* the class of the provider instance, "" when there is none
  lastRequestTime,  \* the field lastRequestTime of the provider instance
  clock,            \* Date.now(), in milliseconds
  tasks,            \* the calls of the provider instance and where each stands
  requests,         \* the HTTP requests started: the call and the time of each
  timeoutId         \* the timer of CoinDeskSDK.fetch

\* the provider instance, the event loop and the network
io == <<instance, lastRequestTime, clock, tasks, requests, timeoutId>>

vars == <<priceData, pc, call, outcome, io>>

\* no provider instance, no timer, no request
NoInstance ==
  /\ instance = ""
  /\ lastRequestTime = 0
  /\ clock = 0
  /\ tasks = <<>>
  /\ requests = <<>>
  /\ timeoutId = "none"

\* before the first call and between calls there is no outcome to read
NoOutcome == Throw("no call in progress")

NoCall == [op |-> "none", method |-> "", period |-> "", options |-> NoOptions]

Init ==
  /\ priceData \in AllSeries
  /\ pc = "idle"
  /\ call = NoCall
  /\ outcome = NoOutcome
  /\ NoInstance

CallCalculateLogReturns ==
  /\ pc = "idle"
  /\ pc' = "returned"
  /\ call' = [NoCall EXCEPT !.op = "calculateLogReturns"]
  /\ outcome' = calculateLogReturns(PricesOf(priceData))
  /\ UNCHANGED <<priceData, io>>

CallCalculateMetrics ==
  \E period \in Periods :
    /\ pc = "idle"
    /\ pc' = "returned"
    /\ call' = [NoCall EXCEPT !.op = "calculateMetrics", !.period = period]
    /\ outcome' = calculateMetrics(priceData, period)
    /\ UNCHANGED <<priceData, io>>

\* variant: the call takes the first point off the series it was given
CallCalculateDVOLConsuming ==
  \E method \in MethodArguments, options \in OptionsArguments :
    /\ pc = "idle"
    /\ pc' = "returned"
    /\ call' = [NoCall EXCEPT !.op = "calculateDVOL", !.method = method,
                              !.options = options]
    /\ outcome' = calculateDVOL(priceData, method, options)
    /\ priceData' = IF priceData = <<>> THEN priceData ELSE Tail(priceData)
    /\ UNCHANGED io

CallCalculateDVOL ==
  \E method \in MethodArguments, options \in OptionsArguments :
    /\ pc = "idle"
    /\ pc' = "returned"
    /\ call' = [NoCall EXCEPT !.op = "calculateDVOL", !.method = method,
                              !.options = options]
    /\ outcome' = calculateDVOL(priceData, method, options)
    /\ UNCHANGED <<priceData, io>>

\* calculateDiagnostics takes a method and options and reads neither
CallCalculateDiagnostics ==
  /\ pc = "idle"
  /\ pc' = "returned"
  /\ call' = [NoCall EXCEPT !.op = "calculateDiagnostics"]
  /\ outcome' = calculateDiagnostics(priceData)
  /\ UNCHANGED <<priceData, io>>

\* the caller has taken the result and is free to call again; nothing of the
\* call is kept
Resume ==
  /\ pc = "returned"
  /\ pc' = "idle"
  /\ call' = NoCall
  /\ outcome' = NoOutcome
  /\ UNCHANGED <<priceData, io>>

Next ==
  \/ CallCalculateLogReturns
  \/ CallCalculateMetrics
  \/ CallCalculateDVOL
  \/ CallCalculateDiagnostics
  \/ Resume

Spec == Init /\ [][Next]_vars

----------------------------------------------------------------------------
(* The EWMA estimator applied to log returns: dvol.ts, lines 131 to 153 of
   calculateEWMADVOL, the part that follows calculateLogReturns *)

\* the returns an application draws from
EstimatorReturns == {Dec(1, -2), Dec(-2, -2), Dec(15, -3), Zero}

ReturnSeries == UNION {[1..n -> EstimatorReturns] : n \in 1..MaxReturns}

EstimatorLambdas == {DEFAULT_EWMA_LAMBDA, Dec(5, -1)}

\* the array variances of calculateEWMADVOL after its loop
EWMAVariances(logReturns, lambda) ==
  EWMALoop(logReturns, lambda, 1, <<Square(logReturns[1])>>)

EstimatorInit ==
  /\ priceData = <<>>
  /\ pc = "idle"
  /\ call = NoCall
  /\ outcome = NoOutcome
  /\ NoInstance

ApplyEWMA ==
  /\ pc = "idle"
  /\ \E logReturns \in ReturnSeries, lambda \in EstimatorLambdas :
       /\ call' = [op |-> "calculateEWMADVOL",
                   logReturns |-> logReturns,
                   lambda |-> lambda,
                   annualizationFactor |-> ANNUALIZATION_FACTOR]
       /\ outcome' = EWMAOfReturns(Return(logReturns), lambda,
                                   ANNUALIZATION_FACTOR)
  /\ pc' = "returned"
  /\ UNCHANGED <<priceData, io>>

EstimatorNext ==
  \/ ApplyEWMA
  \/ Resume

EstimatorSpec == EstimatorInit /\ [][EstimatorNext]_vars

----------------------------------------------------------------------------
(* Providers: src/src/providers/jupiter.ts, coinlore.ts, coindesk.ts (with
   HttpClient, lines 158 to 234) and src/unnamed/part_001 (CoinGecko) *)

\* the values JSON.parse gives, and undefined
JNull == [t |-> "null"]

Undefined == [t |-> "undefined"]

JNum(x) == [t |-> "number", number |-> x]

JStr(s) == [t |-> "string", string |-> s]

JObj(properties) == [t |-> "object", object |-> properties]

JArr(items) == [t |-> "array", array |-> items]

\* a response body JSON.parse throws on
Unparsable == [t |-> "unparsable"]

Nullish(value) == value.t \in {"null", "undefined"}

\* value.name, of a value that is neither null nor undefined
Prop(value, name) ==
  IF value.t = "object" /\ name \in DOMAIN value.object
  THEN value.object[name]
  ELSE Undefined

\* array[index], 0-based
At(value, index) ==
  IF value.t = "array" /\ index < Len(value.array)
  THEN value.array[index + 1]
  ELSE Undefined

\* the condition value, as in if (value)
Truthy(value) ==
  CASE Nullish(value) -> FALSE
    [] value.t = "string" -> value.string # ""
    [] value.t = "number" -> ~IsNaN(value.number) /\ value.number # Zero
    [] OTHER -> TRUE

\* typeof value === 'number' && value > 0
PositiveNumber(value) == value.t = "number" /\ Lt(Zero, value.number)

\* parseFloat of the strings the responses carry
parseFloat(value) ==
  CASE value.t = "number" -> value.number
    [] value.t = "string" /\ value.string = "150.5" -> Dec(1505, -1)
    [] value.t = "string" /\ value.string = "0" -> Zero
    [] value.t = "string" /\ value.string = "-5" -> Num(-5)
    [] value.t = "string" /\ value.string = "Infinity" -> PosInf
    [] OTHER -> NaN

\* the two shapes of ApiResponse
Success(data) == [success |-> TRUE, data |-> data]

Failure(error) == [success |-> FALSE, error |-> error]

\* catch (error) { return { success: false, error: error.message } }
Caught(result) ==
  IF result.ok THEN result ELSE Return(Failure(result.error))

\* response.error || fallback
ErrorOr(response, fallback) ==
  IF "error" \in DOMAIN response /\ response.error # ""
  THEN response.error
  ELSE fallback

\* !response.success || !response.data
Unanswered(response) ==
  ~response.success \/ ~Truthy(response.data)

JSONContentTypes == {"application/json", "application/json; charset=utf-8"}

\* HttpClient.get, on the answer of the network
HttpClientGet(answer) ==
  IF answer.thrown # "" THEN Failure(answer.thrown)
  ELSE IF answer.statusCode < 200 \/ answer.statusCode >= 300
       THEN [success |-> FALSE, error |-> "HTTP statusCode: Request failed",
             statusCode |-> answer.statusCode]
  ELSE IF answer.contentType \notin JSONContentTypes
       THEN [success |-> FALSE,
             error |-> "Invalid content type, expected JSON",
             statusCode |-> answer.statusCode]
  ELSE IF answer.body = Unparsable
       THEN Failure("Unexpected token in JSON")
  ELSE [success |-> TRUE, data |-> answer.body,
        statusCode |-> answer.statusCode]

\* symbolToJupiterId, symbolToNameId and symbolToCode; "" is undefined
symbolToCode(provider, symbol) ==
  CASE symbol = "bitcoin" -> IF provider = "CoinLore" THEN "bitcoin" ELSE "BTC"
    [] symbol = "solana" -> IF provider = "CoinLore" THEN "solana" ELSE "SOL"
    [] OTHER -> ""

\* getDaysFromPeriod; CoinDesk has no default and returns undefined, with
\* which its loop runs as with 0
getDaysFromPeriod(provider, period) ==
  CASE period = "1d" -> Return(1)
    [] period = "30d" -> Return(30)
    [] period = "365d" -> Return(365)
    [] OTHER -> IF provider = "CoinDesk" THEN Return(0)
                ELSE Throw("Unsupported period")

\* isNaN(price) || price <= 0, after parseFloat
ParsedPrice(price) ==
  IF IsNaN(price) \/ Le(price, Zero)
  THEN Return(Failure("Invalid price data received"))
  ELSE Return(Success(price))

\* JupiterProvider.getCurrentPrice, after the request
JupiterPrice(response, jupiterId) ==
  IF Unanswered(response)
  THEN Return(Failure(ErrorOr(response, "Failed to fetch price from Jupiter")))
  ELSE IF Nullish(Prop(response.data, "data"))
  THEN Throw("Cannot read properties of undefined")
  ELSE IF \/ ~Truthy(Prop(Prop(response.data, "data"), jupiterId))
          \/ ~Truthy(Prop(Prop(Prop(response.data, "data"), jupiterId), "price"))
  THEN Return(Failure("No price data available for this symbol"))
  ELSE ParsedPrice(
         parseFloat(Prop(Prop(Prop(response.data, "data"), jupiterId), "price")))

\* CoinLoreProvider.getCurrentPrice, after the request
CoinLorePrice(response) ==
  IF Unanswered(response)
  THEN Return(Failure(ErrorOr(response, "Failed to fetch price from CoinLore")))
  ELSE IF At(Prop(response.data, "data"), 0) = Undefined
  THEN Return(Failure("No price data available for this symbol"))
  ELSE IF Nullish(At(Prop(response.data, "data"), 0))
  THEN Throw("Cannot read properties of null")
  ELSE ParsedPrice(parseFloat(Prop(At(Prop(response.data, "data"), 0), "price_usd")))

\* entry?.rate_float ?? parseFloat(entry?.rate ?? NaN)
RateOf(entry) ==
  IF Nullish(entry) THEN JNum(NaN)
  ELSE IF ~Nullish(Prop(entry, "rate_float")) THEN Prop(entry, "rate_float")
  ELSE JNum(parseFloat(Prop(entry, "rate")))

\* the rates the fallback loop of CoinDeskProvider.getCurrentPrice accepts
UsableRates(bpi) ==
  IF bpi.t # "object" THEN {}
  ELSE {RateOf(bpi.object[k]).number :
          k \in {n \in DOMAIN bpi.object :
                   /\ PositiveNumber(RateOf(bpi.object[n]))
                   /\ ~IsNaN(RateOf(bpi.object[n]).number)}}

\* CoinDeskProvider.getCurrentPrice, once bpi is read
CoinDeskPriceOfBpi(bpi) ==
  IF /\ Truthy(bpi)
     /\ Truthy(Prop(bpi, "USD"))
     /\ Prop(Prop(bpi, "USD"), "rate_float").t = "number"
  THEN Return(Success(Prop(Prop(bpi, "USD"), "rate_float").number))
  ELSE IF UsableRates(bpi) # {}
  THEN Return(Success(CHOOSE rate \in UsableRates(bpi) : TRUE))
  ELSE Return(Failure("No usable price found in CoinDesk response"))

\* CoinDeskProvider.getCurrentPrice, after the request
CoinDeskPrice(response) ==
  IF Unanswered(response)
  THEN Return(Failure(ErrorOr(response, "Failed to fetch price from CoinDesk")))
  ELSE CoinDeskPriceOfBpi(Prop(response.data, "bpi"))

\* getCurrentPrice of Jupiter, CoinLore and CoinDesk
getCurrentPrice(provider, symbol, answer) ==
  IF symbolToCode(provider, symbol) = ""
  THEN Return(Failure("Unsupported symbol"))
  ELSE CASE provider = "Jupiter" ->
              Caught(JupiterPrice(HttpClientGet(answer),
                                  symbolToCode(provider, symbol)))
         [] provider = "CoinLore" -> Caught(CoinLorePrice(HttpClientGet(answer)))
         [] OTHER -> Caught(CoinDeskPrice(HttpClientGet(answer)))

\* validatePriceData; CoinDesk leaves out the test of NaN
validatePriceData(provider, data) ==
  /\ Len(data) > 1
  /\ \A i \in 1..Len(data) :
       /\ PositiveNumber(data[i].price)
       /\ PositiveNumber(data[i].timestamp)
       /\ provider # "CoinDesk" => ~IsNaN(data[i].price.number)

\* Math.random(): the draw-th number (from 0) of the stream
RandomAt(stream, draw) == stream[(draw % Len(stream)) + 1]

\* (Math.random() - 0.5) * 2
RandomWalk(random) == Mul(Sub(random, Dec(5, -1)), Num(2))

\* trend and drift, drawn before the loop: (Math.random() - 0.5) * 0.02
Drift(stream) == Mul(Sub(RandomAt(stream, 0), Dec(5, -1)), Dec(2, -2))

\* the price of one synthetic point
NextPrice(provider, currentPrice, price, drift, random) ==
  CASE provider = "Jupiter" ->
         Mul(currentPrice,
             Add(One, Sub(Mul(random, Dec(5, -2)), Dec(25, -3))))
    [] provider = "CoinLore" ->
         MathMax(Add(price,
                     Mul(Add(drift, Mul(RandomWalk(random), Dec(3, -2))), price)),
                 Mul(currentPrice, Dec(5, -1)))
    [] OTHER ->
         MathMax(Dec(1, -6),
                 Add(price,
                     Mul(Add(drift, Mul(RandomWalk(random), Dec(35, -3))), price)))

dayInMs == Mul(Mul(Num(24 * 60), Num(60)), Num(1000))

\* one iteration of the loop, once the price of the point is bound; the state
\* of the loop is the last price, the index i and the points pushed
SyntheticPush(price, state, now) ==
  [price |-> price, i |-> state.i - 1,
   out |-> Push(state.out,
                [timestamp |-> JNum(Sub(now, Mul(Num(state.i), dayInMs))),
                 price |-> JNum(price)])]

\* one iteration; Jupiter draws once an iteration, the others once more
\* before the loop
SyntheticStep(provider, currentPrice, state, now, stream) ==
  SyntheticPush(
    NextPrice(provider, currentPrice, state.price, Drift(stream),
              RandomAt(stream,
                       Len(state.out) + IF provider = "Jupiter" THEN 0 ELSE 1)),
    state, now)

\* the iterations of the loop down to index stop
RECURSIVE SyntheticRun(_, _, _, _, _, _)
SyntheticRun(provider, currentPrice, state, stop, now, stream) ==
  IF state.i < stop THEN state
  ELSE SyntheticRun(provider, currentPrice,
                    SyntheticStep(provider, currentPrice, state, now, stream),
                    stop, now, stream)

\* the loops of fetchHistoricalPrices, generateHistoricalData and
\* generateSyntheticHistory, for (let i = days - 1; i >= 0; i--), evaluated
\* twenty iterations at a time
RECURSIVE SyntheticLoop(_, _, _, _, _)
SyntheticLoop(provider, currentPrice, state, now, stream) ==
  IF state.i < 0 THEN state.out
  ELSE SyntheticLoop(provider, currentPrice,
         SyntheticRun(provider, currentPrice, state,
                      IF state.i > 20 THEN state.i - 20 ELSE 0, now, stream),
         now, stream)

\* the synthetic series, validated
SyntheticOfData(provider, data, invalid) ==
  IF validatePriceData(provider, data)
  THEN Return(Success(data))
  ELSE Return(Failure(invalid))

\* the synthetic series anchored to the current price, once that is fetched
SyntheticOfPrice(provider, current, days, now, stream, unable, invalid) ==
  IF ~current.value.success THEN Return(Failure(unable))
  ELSE IF ~days.ok THEN days
  ELSE SyntheticOfData(provider,
         SyntheticLoop(provider, current.value.data,
                       [price |-> current.value.data, i |-> days.value - 1,
                        out |-> <<>>],
                       now, stream),
         invalid)

\* JupiterProvider.fetchPriceData with fetchHistoricalPrices
JupiterFetchPriceData(symbol, period, answers, now, stream) ==
  IF symbolToCode("Jupiter", symbol) = ""
  THEN Return(Failure("Unsupported symbol"))
  ELSE IF ~getDaysFromPeriod("Jupiter", period).ok
  THEN Caught(getDaysFromPeriod("Jupiter", period))
  ELSE Caught(SyntheticOfPrice("Jupiter",
                getCurrentPrice("Jupiter", symbol, answers[1]),
                getDaysFromPeriod("Jupiter", period), now, stream,
                "Unable to fetch current price for historical calculation",
                "Invalid price data received"))

\* CoinLoreProvider.fetchPriceData with generateHistoricalData
CoinLoreFetchPriceData(symbol, period, answers, now, stream) ==
  IF symbolToCode("CoinLore", symbol) = ""
  THEN Return(Failure("Unsupported symbol"))
  ELSE Caught(SyntheticOfPrice("CoinLore",
                getCurrentPrice("CoinLore", symbol, answers[1]),
                getDaysFromPeriod("CoinLore", period), now, stream,
                "Unable to fetch current price for historical calculation",
                "Invalid price data generated"))

\* histResp.data.prices.map(p => ({ timestamp: p.timestamp, price: p.price }))
MappedHistory(prices) ==
  [i \in 1..Len(prices) |-> [timestamp |-> Prop(prices[i], "timestamp"),
                             price |-> Prop(prices[i], "price")]]

\* the historical endpoint gave a series that is returned as it is
HistoryUsable(histResp) ==
  /\ ~Unanswered(histResp)
  /\ Prop(histResp.data, "prices").t = "array"
  /\ Len(Prop(histResp.data, "prices").array) > 1
  /\ \A i \in 1..Len(Prop(histResp.data, "prices").array) :
       ~Nullish(Prop(histResp.data, "prices").array[i])
  /\ validatePriceData("CoinDesk",
                       MappedHistory(Prop(histResp.data, "prices").array))

\* CoinDeskProvider.fetchPriceData with generateSyntheticHistory
CoinDeskFetchPriceData(symbol, period, answers, now, stream) ==
  IF ~getCurrentPrice("CoinDesk", symbol, answers[1]).value.success
  THEN Return(Failure("Unable to fetch current price for historical generation"))
  ELSE IF HistoryUsable(HttpClientGet(answers[2]))
  THEN Return(Success(MappedHistory(
                        Prop(HttpClientGet(answers[2]).data, "prices").array)))
  ELSE Caught(SyntheticOfPrice("CoinDesk",
                getCurrentPrice("CoinDesk", symbol, answers[1]),
                getDaysFromPeriod("CoinDesk", period), now, stream,
                "Unable to fetch current price for historical generation",
                "Invalid synthetic price data"))

\* prices.map(([timestamp, price]) => ({ timestamp, price }))
MappedChart(prices) ==
  [i \in 1..Len(prices) |-> [timestamp |-> At(prices[i], 0),
                             price |-> At(prices[i], 1)]]

\* CoinGeckoProvider.fetchPriceData, after the request
CoinGeckoSeries(response) ==
  IF Unanswered(response)
  THEN Return(Failure(ErrorOr(response, "Failed to fetch data from CoinGecko")))
  ELSE IF At(Prop(response.data, "prices"), 0) = Undefined
  THEN Return(Failure("No price data available"))
  ELSE IF \E i \in 1..Len(Prop(response.data, "prices").array) :
            Prop(response.data, "prices").array[i].t \notin {"array", "string"}
  THEN Throw("is not iterable")
  ELSE SyntheticOfData("CoinGecko",
                       MappedChart(Prop(response.data, "prices").array),
                       "Invalid price data received")

CoinGeckoFetchPriceData(symbol, period, answers) ==
  IF ~getDaysFromPeriod("CoinGecko", period).ok
  THEN Caught(getDaysFromPeriod("CoinGecko", period))
  ELSE Caught(CoinGeckoSeries(HttpClientGet(answers[1])))

fetchPriceData(provider, symbol, period, answers, now, stream) ==
  CASE provider = "Jupiter" ->
         JupiterFetchPriceData(symbol, period, answers, now, stream)
    [] provider = "CoinLore" ->
         CoinLoreFetchPriceData(symbol, period, answers, now, stream)
    [] provider = "CoinDesk" ->
         CoinDeskFetchPriceData(symbol, period, answers, now, stream)
    [] OTHER -> CoinGeckoFetchPriceData(symbol, period, answers)

----------------------------------------------------------------------------
(* The network and the calls of the providers *)

Providers == {"CoinGecko", "Jupiter", "CoinLore", "CoinDesk"}

Symbols == {"solana", "dogecoin"}

TimePeriods == {"1d", "30d", "365d"}

\* Date.now(), epoch milliseconds
Now == Dec(17, 11)

\* the streams Math.random() draws from, each repeated without end
RandomStreams == {<<Zero>>, <<Dec(5, -1)>>, <<Dec(999999, -6)>>}

\* a 200 response of JSON with this body
Answered(body) ==
  [thrown |-> "", statusCode |-> 200, contentType |-> "application/json",
   body |-> body]

\* the requests that fail: network exception, status that is not 2xx, content
\* type that is not JSON, body that is not JSON
FailedAnswers ==
  {[Answered(JNull) EXCEPT !.thrown = "fetch failed"],
   [Answered(JNull) EXCEPT !.statusCode = 500],
   [Answered(JNull) EXCEPT !.contentType = "text/html"],
   Answered(Unparsable)}

PriceStrings == {"", "abc", "0", "-5", "150.5", "Infinity"}

\* a price point of a response
Point(timestamp, price) ==
  JObj([timestamp |-> JNum(timestamp), price |-> JNum(price)])

\* a [timestamp, price] pair of a market chart
Pair(timestamp, price) == JArr(<<JNum(timestamp), JNum(price)>>)

NumbersReceived == {Num(50000), Zero, Num(-5), PosInf}

\* the bodies of the endpoint the provider reads the current price from (the
\* market chart, for CoinGecko)
BodiesFor(provider) ==
  {JNull, JObj([timeTaken |-> JNum(One)])} \cup
  CASE provider = "Jupiter" ->
         {JObj([data |-> JObj([BTC |-> JObj([price |-> JStr("150.5")])])])} \cup
         {JObj([data |-> JObj([SOL |-> JObj([price |-> JStr(s)])])]) :
            s \in PriceStrings}
    [] provider = "CoinLore" ->
         {JObj([data |-> JArr(<<>>)]), JObj([data |-> JArr(<<JNull>>)])} \cup
         {JObj([data |-> JArr(<<JObj([price_usd |-> JStr(s)])>>)]) :
            s \in PriceStrings}
    [] provider = "CoinDesk" ->
         {JObj([bpi |-> JObj([USD |-> JObj([rate_float |-> JNum(x)])])]) :
            x \in NumbersReceived} \cup
         {JObj([bpi |-> JObj([EUR |-> JObj([rate |-> JStr(s)])])]) :
            s \in {"abc", "150.5"}}
    [] OTHER ->
         {JObj([prices |-> JArr(pairs)]) :
            pairs \in {<<>>, <<Pair(Now, Num(100))>>, <<JNull, JNull>>,
                       <<JArr(<<JNum(Now)>>), Pair(Now, Num(100))>>,
                       <<Pair(Zero, Num(100)), Pair(Now, Num(100))>>,
                       <<JArr(<<JNum(Now), JStr("100")>>), Pair(Now, Num(100))>>}
           \cup {<<Pair(Now, x), Pair(Now, Num(101))>> : x \in NumbersReceived}}

\* the bodies of the historical endpoint of CoinDesk
HistoryBodies ==
  {JNull} \cup
  {JObj([prices |-> JArr(points)]) :
     points \in {<<>>, <<JNull, JNull>>}
       \cup {<<Point(Now, x), Point(Now, Num(101))>> : x \in NumbersReceived}}

AnswersFor(provider) ==
  FailedAnswers \cup {Answered(body) : body \in BodiesFor(provider)}

\* the answers to the requests of one fetchPriceData, in order
FetchAnswersFor(provider) ==
  IF provider = "CoinDesk"
  THEN {<<current, history>> :
          current \in AnswersFor(provider),
          history \in FailedAnswers \cup {Answered(b) : b \in HistoryBodies}}
  ELSE {<<answer>> : answer \in AnswersFor(provider)}

ProviderInit ==
  /\ priceData = <<>>
  /\ pc = "idle"
  /\ call = NoCall
  /\ outcome = NoOutcome
  /\ NoInstance

CallGetCurrentPrice ==
  /\ pc = "idle"
  /\ \E provider \in Providers \ {"CoinGecko"}, symbol \in Symbols :
       \E answer \in AnswersFor(provider) :
         /\ call' = [op |-> "getCurrentPrice", provider |-> provider,
                     symbol |-> symbol, period |-> "",
                     answers |-> <<answer>>]
         /\ outcome' = getCurrentPrice(provider, symbol, answer)
  /\ pc' = "returned"
  /\ UNCHANGED <<priceData, io>>

CallFetchPriceData ==
  /\ pc = "idle"
  /\ \E provider \in Providers, symbol \in Symbols, period \in TimePeriods :
       \E answers \in FetchAnswersFor(provider), stream \in RandomStreams :
         /\ call' = [op |-> "fetchPriceData", provider |-> provider,
                     symbol |-> symbol, period |-> period,
                     answers |-> answers]
         /\ outcome' = fetchPriceData(provider, symbol, period, answers, Now,
                                      stream)
  /\ pc' = "returned"
  /\ UNCHANGED <<priceData, io>>

ProviderNext ==
  \/ CallGetCurrentPrice
  \/ CallFetchPriceData
  \/ Resume

ProviderSpec == ProviderInit /\ [][ProviderNext]_vars

----------------------------------------------------------------------------
(* Rate limiting of one provider instance: enforceRateLimit of             *)
(* src/src/providers/jupiter.ts and of CoinGeckoProvider, with the calls   *)
(* of fetchPriceData and getCurrentPrice that await it. A call runs        *)
(* without interruption up to its next await; time passes only while every *)
(* call waits for a timer or for the network.                              *)

\* the calls made on the instance
MaxCalls == 3

\* the step of the clock, in milliseconds
Quantum == 100

\* Date.now() when the instance is made: further from 0, the first value of
\* lastRequestTime, than any rateLimitDelay
StartTime == 2000

\* the time after which no call is started
MaxTime == StartTime + 16 * Quantum

Calls == 1..MaxCalls

RateLimited == {"Jupiter", "CoinGecko"}

rateLimitDelay(class) == IF class = "CoinGecko" THEN 1100 ELSE 500

\* CoinGeckoProvider has no getCurrentPrice
OperationsOf(class) ==
  IF class = "CoinGecko" THEN {"fetchPriceData"}
  ELSE {"fetchPriceData", "getCurrentPrice"}

\* the times a call awaits enforceRateLimit before its HTTP request: fetchPriceData
\* of Jupiter awaits it, then getCurrentPrice, which it calls, awaits it again
PassesOf(class, op) ==
  IF class = "Jupiter" /\ op = "fetchPriceData" THEN 2 ELSE 1

NotStarted == [op |-> "", pc |-> "idle", passes |-> 0, wake |-> 0]

\* the calls that sleep in the setTimeout of enforceRateLimit
Sleeping == {i \in Calls : tasks[i].pc = "sleeping"}

\* the least of a set of times
Earliest(times) == CHOOSE t \in times : \A u \in times : t <= u

\* enforceRateLimit as task i runs it up to its await: the call sleeps for
\* rateLimitDelay - timeSinceLastRequest, or sets lastRequestTime and returns
enforceRateLimit(i, task) ==
  IF clock - lastRequestTime < rateLimitDelay(instance)
  THEN /\ tasks' = [tasks EXCEPT ![i] =
                      [task EXCEPT !.pc = "sleeping",
                                   !.wake = clock + (rateLimitDelay(instance)
                                                     - (clock - lastRequestTime))]]
       /\ UNCHANGED lastRequestTime
  ELSE /\ tasks' = [tasks EXCEPT ![i] =
                      [task EXCEPT !.pc = "resumed", !.passes = @ - 1]]
       /\ lastRequestTime' = clock

RateLimitInit ==
  /\ priceData = <<>>
  /\ pc = "idle"
  /\ call = NoCall
  /\ outcome = NoOutcome
  /\ instance \in RateLimited
  /\ lastRequestTime = 0
  /\ clock = StartTime
  /\ tasks = [i \in Calls |-> NotStarted]
  /\ requests = <<>>
  /\ timeoutId = "none"

\* a caller calls fetchPriceData or getCurrentPrice, which runs up to the
\* await of its first statement, await this.enforceRateLimit()
StartCall ==
  /\ clock <= MaxTime
  /\ \E i \in Calls, op \in OperationsOf(instance) :
       /\ tasks[i].pc = "idle"
       /\ enforceRateLimit(i, [NotStarted EXCEPT !.op = op,
                                 !.passes = PassesOf(instance, op)])
  /\ UNCHANGED <<priceData, pc, call, outcome, instance, clock, requests,
                 timeoutId>>

\* the timer of a sleeping call fires: this.lastRequestTime = Date.now()
TimerFires ==
  /\ \E i \in Sleeping :
       /\ tasks[i].wake <= clock
       /\ tasks' = [tasks EXCEPT ![i].pc = "resumed", ![i].passes = @ - 1]
  /\ lastRequestTime' = clock
  /\ UNCHANGED <<priceData, pc, call, outcome, instance, clock, requests,
                 timeoutId>>

\* fetchPriceData of Jupiter goes on to getCurrentPrice, which awaits
\* enforceRateLimit again
AwaitAgain ==
  /\ \E i \in Calls :
       /\ tasks[i].pc = "resumed"
       /\ tasks[i].passes > 0
       /\ enforceRateLimit(i, tasks[i])
  /\ UNCHANGED <<priceData, pc, call, outcome, instance, clock, requests,
                 timeoutId>>

\* the call goes on to this.httpClient.get, which starts the HTTP request
SendRequest ==
  /\ \E i \in Calls :
       /\ tasks[i].pc = "resumed"
       /\ tasks[i].passes = 0
       /\ tasks' = [tasks EXCEPT ![i].pc = "inflight"]
       /\ requests' = Append(requests, [call |-> i, at |-> clock])
  /\ UNCHANGED <<priceData, pc, call, outcome, instance, lastRequestTime, clock,
                 timeoutId>>

\* the response arrives and the call returns
Respond ==
  /\ \E i \in Calls :
       /\ tasks[i].pc = "inflight"
       /\ tasks' = [tasks EXCEPT ![i].pc = "done"]
  /\ UNCHANGED <<priceData, pc, call, outcome, instance, lastRequestTime, clock,
                 requests, timeoutId>>

\* time passes, up to the next timer, while no call has a step to take
Tick ==
  /\ \A i \in Calls : tasks[i].pc # "resumed"
  /\ \A i \in Sleeping : clock < tasks[i].wake
  /\ clock < MaxTime \/ Sleeping # {}
  /\ clock' = Earliest({clock + Quantum} \cup {tasks[i].wake : i \in Sleeping})
  /\ UNCHANGED <<priceData, pc, call, outcome, instance, lastRequestTime, tasks,
                 requests, timeoutId>>

RateLimitNext ==
  \/ StartCall
  \/ TimerFires
  \/ AwaitAgain
  \/ SendRequest
  \/ Respond
  \/ Tick

RateLimitSpec == RateLimitInit /\ [][RateLimitNext]_vars

----------------------------------------------------------------------------
(* CoinDeskSDK.fetch: src/src/sdk/coindesk/client.ts, lines 225 to 250,    *)
(* which every API method of the SDK returns the result of                 *)

\* the API methods called; each passes its path to fetch
SDKMethods == {"getLatestTick", "getHistoricalDays", "getSpotMarkets"}

\* res.status and res.statusText
StatusTexts ==
  [s \in {200, 400, 404, 429, 500, 502} |->
     CASE s = 200 -> "OK"
       [] s = 400 -> "Bad Request"
       [] s = 404 -> "Not Found"
       [] s = 429 -> "Too Many Requests"
       [] s = 500 -> "Internal Server Error"
       [] OTHER -> "Bad Gateway"]

\* the bodies a response carries: a result, the shapes of ErrorResponse, JSON
\* that is no object, and text that is not JSON (an HTML error page, no body)
SDKBodies ==
  {JObj([Data |-> JArr(<<>>)]),
   JObj([message |-> JStr("Invalid market")]),
   JObj([error |-> JStr("Bad request")]),
   JObj([message |-> JStr(""), error |-> JStr("Rate limit reached")]),
   JObj([code |-> JNum(One)]),
   JNull,
   Unparsable}

SDKResponses ==
  {[status |-> s, statusText |-> StatusTexts[s], body |-> b] :
     s \in DOMAIN StatusTexts, b \in SDKBodies}

NoResponse == [status |-> 0, statusText |-> "", body |-> Undefined]

\* res.ok
ResponseOk(res) == res.status >= 200 /\ res.status <= 299

\* an error of the given class; status and detail are those of the message
\* `CoinDesk API error ${res.status}: ${detail}` and empty otherwise
ErrorOf(name, message, status, detail) ==
  [name |-> name, message |-> message, status |-> status, detail |-> detail]

\* err.message || err.error || res.statusText
ErrorDetail(err, res) ==
  IF Truthy(Prop(err, "message")) THEN Prop(err, "message").string
  ELSE IF Truthy(Prop(err, "error")) THEN Prop(err, "error").string
  ELSE res.statusText

\* the statements of the try block that follow the await of fetch
SettleResponse(res) ==
  IF res.body = Unparsable
  THEN Throw(ErrorOf("SyntaxError", "Unexpected token in JSON", 0, ""))
  ELSE IF ResponseOk(res) THEN Return(res.body)
  ELSE IF Nullish(res.body)
  THEN Throw(ErrorOf("TypeError", "Cannot read properties of null", 0, ""))
  ELSE Throw(ErrorOf("Error", "CoinDesk API error", res.status,
                     ErrorDetail(res.body, res)))

\* finally { clearTimeout(timeoutId) }: a timer that has fired stays fired
clearTimeout(timer) == IF timer = "armed" THEN "cleared" ELSE timer

SDKInit ==
  /\ priceData = <<>>
  /\ pc = "idle"
  /\ call = NoCall
  /\ outcome = NoOutcome
  /\ NoInstance

\* an API method calls fetch: the timer is set and the request sent
CallSDK ==
  /\ pc = "idle"
  /\ \E method \in SDKMethods :
       call' = [op |-> method, response |-> NoResponse]
  /\ pc' = "awaiting fetch"
  /\ timeoutId' = "armed"
  /\ UNCHANGED <<priceData, outcome, instance, lastRequestTime, clock, tasks,
                 requests>>

\* the request fails before a response: fetch rejects
NetworkFails ==
  /\ pc = "awaiting fetch"
  /\ pc' = "returned"
  /\ outcome' = Throw(ErrorOf("TypeError", "fetch failed", 0, ""))
  /\ timeoutId' = clearTimeout(timeoutId)
  /\ UNCHANGED <<priceData, call, instance, lastRequestTime, clock, tasks,
                 requests>>

\* the timer fires, controller.abort() rejects the pending await
TimeoutFires ==
  /\ pc \in {"awaiting fetch", "awaiting json"}
  /\ timeoutId = "armed"
  /\ pc' = "returned"
  /\ outcome' = Throw(ErrorOf("AbortError", "This operation was aborted", 0, ""))
  /\ timeoutId' = clearTimeout("fired")
  /\ UNCHANGED <<priceData, call, instance, lastRequestTime, clock, tasks,
                 requests>>

\* the status line and headers arrive: fetch resolves, res.json() is awaited
ResponseArrives ==
  /\ pc = "awaiting fetch"
  /\ \E res \in SDKResponses : call' = [call EXCEPT !.response = res]
  /\ pc' = "awaiting json"
  /\ UNCHANGED <<priceData, outcome, io>>

\* res.json() settles, and fetch returns or throws through its finally
BodyRead ==
  /\ pc = "awaiting json"
  /\ pc' = "returned"
  /\ outcome' = SettleResponse(call.response)
  /\ timeoutId' = clearTimeout(timeoutId)
  /\ UNCHANGED <<priceData, call, instance, lastRequestTime, clock, tasks,
                 requests>>

\* the caller has taken the result or caught the error
SDKResume ==
  /\ pc = "returned"
  /\ pc' = "idle"
  /\ call' = NoCall
  /\ outcome' = NoOutcome
  /\ UNCHANGED <<priceData, io>>

SDKNext ==
  \/ CallSDK
  \/ NetworkFails
  \/ TimeoutFires
  \/ ResponseArrives
  \/ BodyRead
  \/ SDKResume

SDKSpec == SDKInit /\ [][SDKNext]_vars

----------------------------------------------------------------------------
(* Vocabulary of the properties *)

\* the call of op has ended
Returned(op) == pc = "returned" /\ call.op = op

SeriesPrices == {priceData[i].price : i \in 1..Len(priceData)}

\* every price is finite and above zero
AllPricesValid == \A price \in SeriesPrices : price.k = "num" /\ price.m > 0

\* some price is zero, negative, NaN or infinite
SomePriceInvalid == \E price \in SeriesPrices : price.k # "num" \/ price.m <= 0

\* some price is zero or negative
SomePriceNotPositive ==
  \E price \in SeriesPrices : price.k = "ninf" \/ (price.k = "num" /\ price.m <= 0)

\* one valid price, repeated
ConstantSeries == AllPricesValid /\ Cardinality(SeriesPrices) = 1

\* 0 <= x <= 100, which no NaN satisfies
InPercentRange(x) == x.k = "num" /\ x.m >= 0 /\ Le(x, Num(100))

\* the data points each method asks for
RequiredPoints(method) ==
  CASE method = "simple" -> 2
    [] method = "ewma" -> 5
    [] method = "garch" -> 10
    [] OTHER -> 2

\* the options of the last call, with the documented defaults
WindowSizeOfCall ==
  IF "windowSize" \in DOMAIN call.options THEN call.options.windowSize ELSE 30

LambdaOfCall ==
  IF "ewmaLambda" \in DOMAIN call.options THEN call.options.ewmaLambda
  ELSE Dec(94, -2)

GarchParamsOfCall ==
  IF "garchParams" \in DOMAIN call.options THEN call.options.garchParams
  ELSE [omega |-> Dec(1, -6), alpha |-> Dec(1, -1), beta |-> Dec(85, -2)]

\* the series passes the validation of calculateDVOL for the method called
PassesValidation ==
  Len(priceData) >= RequiredPoints(call.method) /\ AllPricesValid

\* the errors thrown for a price that is not valid
InvalidPriceErrors ==
  {"All prices must be positive finite numbers", "Prices must be positive"}

----------------------------------------------------------------------------
(* Properties *)

\* C1 (as claimed): every result calculateDVOL returns under simple, ewma or
\* garch carries a confidence that is a number in [0,100], also for a
\* constant-price series.
C1_ConfidenceInRange ==
  (Returned("calculateDVOL") /\ call.method \in Methods /\ outcome.ok)
    => InPercentRange(outcome.value.confidence)

\* C2 (as claimed): on a constant positive price every method returns dvol = 0.
C2_ConstantPriceZeroDVOL ==
  (Returned("calculateDVOL") /\ call.method \in Methods /\ ConstantSeries
     /\ outcome.ok)
    => outcome.value.dvol = Zero

\* C2 (amended): on a constant positive price every result of simple and ewma
\* has dvol = 0, and every result of garch has dvol > 0.
C2_ConstantPriceDVOL ==
  (Returned("calculateDVOL") /\ call.method \in Methods /\ ConstantSeries
     /\ outcome.ok)
    => IF call.method = "garch"
       THEN outcome.value.dvol.k = "num" /\ outcome.value.dvol.m > 0
       ELSE outcome.value.dvol = Zero

C2_Witness ==
  /\ Returned("calculateDVOL")
  /\ call.method = "simple"
  /\ ConstantSeries
  /\ Len(priceData) > 5
  /\ outcome.ok
  /\ outcome.value.dvol = Zero

\* the samples the index of a result is compared with, in percent
IndexSamples == {Num(d) : d \in {0, 5, 10, 11, 50, 100, 199, 200, 500}}

\* |190 * index - 100 * (dvol - 10)| is below one hundredth, the rounding of
\* the eight digits carried
IndexMatches(dvol, index) ==
  Lt(MathAbs(Sub(Mul(Num(190), index), Mul(Num(100), Sub(dvol, Num(10))))),
     Dec(1, -2))

\* C3: the dvolIndex of every result is clamp((dvol - 10) / 190 * 100, 0, 100):
\* within [0,100], 0 up to dvol = 10, 100 from dvol = 200 on, the linear value
\* in between, and never below the index of a smaller dvol.
C3_DVOLIndexClamped ==
  (Returned("calculateDVOL") /\ outcome.ok)
    => /\ InPercentRange(outcome.value.dvolIndex)
       /\ Le(outcome.value.dvol, Num(10)) => outcome.value.dvolIndex = Zero
       /\ Le(Num(200), outcome.value.dvol) => outcome.value.dvolIndex = Num(100)
       /\ (Lt(Num(10), outcome.value.dvol) /\ Lt(outcome.value.dvol, Num(200)))
            => IndexMatches(outcome.value.dvol, outcome.value.dvolIndex)
       /\ \A sample \in IndexSamples :
            /\ Le(sample, outcome.value.dvol)
                 => Le(calculateDVOLIndex(sample), outcome.value.dvolIndex)
            /\ Le(outcome.value.dvol, sample)
                 => Le(outcome.value.dvolIndex, calculateDVOLIndex(sample))

C3_Witness ==
  /\ Returned("calculateDVOL")
  /\ outcome.ok
  /\ Lt(Num(10), outcome.value.dvol)
  /\ Lt(outcome.value.dvol, Num(200))
  /\ Lt(Zero, outcome.value.dvolIndex)
  /\ Lt(outcome.value.dvolIndex, Num(100))

\* C4: calculateDVOL throws an insufficient-data error, and returns nothing, on
\* an empty series, on a series of one point and on a series shorter than the
\* minimum of the method (simple 2, ewma 5, garch 10).
C4_TooShortSeriesRejected ==
  (Returned("calculateDVOL") /\ call.method \in Methods
     /\ Len(priceData) < RequiredPoints(call.method))
    => /\ ~outcome.ok
       /\ outcome.error \in
            {"Price data cannot be empty",
             "Need at least 2 price points for DVOL calculation",
             "method requires at least minDataPoints data points"}

C4_Witness ==
  /\ Returned("calculateDVOL")
  /\ call.method = "garch"
  /\ Len(priceData) = 9
  /\ AllPricesValid
  /\ ~outcome.ok
  /\ outcome.error = "method requires at least minDataPoints data points"

\* C5 (as claimed): each of the four public operations throws an invalid-price
\* error on a series, long enough for the operation, of which some price is
\* zero, negative, NaN or infinite.
C5_InvalidPriceRejected ==
  (/\ pc = "returned"
   /\ call.op \in {"calculateLogReturns", "calculateMetrics", "calculateDVOL",
                   "calculateDiagnostics"}
   /\ Len(priceData) >= RequiredPoints(call.method)
   /\ SomePriceInvalid)
    => ~outcome.ok /\ outcome.error \in InvalidPriceErrors

\* C6: the simple method throws "Insufficient data for window size" on a valid
\* series with fewer returns than windowSize (30 when the caller gives none).
C6_SimpleWindowTooLarge ==
  (Returned("calculateDVOL") /\ call.method = "simple" /\ PassesValidation
     /\ Len(priceData) - 1 < WindowSizeOfCall)
    => ~outcome.ok /\ outcome.error = "Insufficient data for window size"

C6_Witness ==
  /\ Returned("calculateDVOL")
  /\ call.method = "simple"
  /\ PassesValidation
  /\ call.options = [windowSize |-> 5]
  /\ Len(priceData) = 5
  /\ outcome.error = "Insufficient data for window size"

LambdaError == "EWMA lambda must be between 0 and 1"

\* C7: on a valid series the ewma method throws its invalid-parameter error for
\* every lambda <= 0 and every lambda >= 1, and for no lambda inside (0,1).
C7_LambdaOpenInterval ==
  (Returned("calculateDVOL") /\ call.method = "ewma" /\ PassesValidation)
    => ((~outcome.ok /\ outcome.error = LambdaError)
          <=> ~(LambdaOfCall.m > 0 /\ Lt(LambdaOfCall, One)))

C7_Witness ==
  /\ Returned("calculateDVOL")
  /\ call.method = "ewma"
  /\ PassesValidation
  /\ LambdaOfCall = One
  /\ outcome.error = LambdaError

GarchError == "Invalid GARCH parameters"

\* C8: on a valid series the garch method throws its invalid-parameter error
\* exactly when omega <= 0, alpha < 0, beta < 0 or alpha + beta >= 1, and
\* accepts the default parameters.
C8_GarchParameters ==
  (Returned("calculateDVOL") /\ call.method = "garch" /\ PassesValidation)
    => /\ (~outcome.ok /\ outcome.error = GarchError)
            <=> \/ GarchParamsOfCall.omega.m <= 0
                \/ GarchParamsOfCall.alpha.m < 0
                \/ GarchParamsOfCall.beta.m < 0
                \/ ~Lt(Add(GarchParamsOfCall.alpha, GarchParamsOfCall.beta), One)
       /\ call.options = NoOptions => outcome.error # GarchError

C8_Witness ==
  /\ Returned("calculateDVOL")
  /\ call.method = "garch"
  /\ PassesValidation
  /\ "garchParams" \in DOMAIN call.options
  /\ GarchParamsOfCall.omega.m > 0
  /\ GarchParamsOfCall.alpha.m > 0
  /\ GarchParamsOfCall.beta.m > 0
  /\ Add(GarchParamsOfCall.alpha, GarchParamsOfCall.beta) = One
  /\ outcome.error = GarchError

\* the prices of the series are all above zero
AllPricesPositive ==
  \A price \in SeriesPrices : price.k = "inf" \/ (price.k = "num" /\ price.m > 0)

\* C9: on n >= 2 positive prices calculateLogReturns returns n - 1 values, the
\* i-th being ln(price_i / price_{i-1}), in input order, and the input is left
\* as it was.
C9_LogReturns ==
  [][(pc' = "returned" /\ call'.op = "calculateLogReturns"
        /\ Len(priceData) >= 2 /\ AllPricesPositive)
       => /\ outcome'.ok
          /\ Len(outcome'.value) = Len(priceData) - 1
          /\ \A i \in 1..(Len(priceData) - 1) :
               outcome'.value[i]
                 = MathLog(Div(priceData[i + 1].price, priceData[i].price))
          /\ priceData' = priceData]_vars

C9_Witness ==
  /\ Returned("calculateLogReturns")
  /\ Len(priceData) = MaxPoints
  /\ AllPricesValid
  /\ outcome.ok
  /\ Len(outcome.value) = MaxPoints - 1
  /\ outcome.value[1] # outcome.value[2]

\* C10: calculateLogReturns throws "Need at least 2 price points to calculate
\* returns" on fewer than 2 prices and "Prices must be positive" on 2 or more
\* prices of which one is zero or negative; it returns nothing then.
C10_LogReturnsErrors ==
  Returned("calculateLogReturns")
    => /\ Len(priceData) < 2
            => /\ ~outcome.ok
               /\ outcome.error
                    = "Need at least 2 price points to calculate returns"
       /\ (Len(priceData) >= 2 /\ SomePriceNotPositive)
            => ~outcome.ok /\ outcome.error = "Prices must be positive"

C10_Witness ==
  /\ Returned("calculateLogReturns")
  /\ Len(priceData) > 2
  /\ priceData[1].price.k = "num"
  /\ priceData[1].price.m > 0
  /\ priceData[2].price.k = "num"
  /\ priceData[2].price.m > 0
  /\ SomePriceNotPositive
  /\ ~outcome.ok
  /\ outcome.error = "Prices must be positive"

\* the period labels the claims name
KnownPeriods == {"1d", "30d", "365d"}

\* C11 (as claimed): calculateMetrics returns its three metrics for every
\* series of 2 or more positive finite prices, a series of exactly 2 points
\* included.
C11_MetricsOnValidSeries ==
  (Returned("calculateMetrics") /\ Len(priceData) >= 2 /\ AllPricesValid)
    => /\ outcome.ok
       /\ DOMAIN outcome.value = {"volatility", "variance", "annualizedVolatility"}

\* C12 (as claimed): calculateDiagnostics returns its four fields for every
\* series of 2 or more positive finite prices, a series of exactly 2 points
\* included.
C12_DiagnosticsOnValidSeries ==
  (Returned("calculateDiagnostics") /\ Len(priceData) >= 2 /\ AllPricesValid)
    => /\ outcome.ok
       /\ DOMAIN outcome.value
            = {"autocorrelation", "heteroskedasticity", "skewness", "kurtosis"}

\* C13: on a constant price of 3 or more points calculateDiagnostics throws
\* nothing and returns autocorrelation, heteroskedasticity, skewness and
\* kurtosis all equal to 0, none of them NaN or infinite.
C13_DiagnosticsOfConstantSeries ==
  (Returned("calculateDiagnostics") /\ ConstantSeries /\ Len(priceData) >= 3)
    => /\ outcome.ok
       /\ outcome.value.autocorrelation = Zero
       /\ outcome.value.heteroskedasticity = Zero
       /\ outcome.value.skewness = Zero
       /\ outcome.value.kurtosis = Zero

C13_Witness ==
  /\ Returned("calculateDiagnostics")
  /\ ConstantSeries
  /\ Len(priceData) = 3
  /\ outcome.ok
  /\ outcome.value.autocorrelation = Zero
  /\ outcome.value.kurtosis = Zero

\* C14 (as claimed): calculateMetrics throws, and returns no metrics, for a
\* period label other than '1d', '30d' and '365d'.
C14_UnknownPeriodRejected ==
  (Returned("calculateMetrics") /\ call.period \notin KnownPeriods)
    => ~outcome.ok

\* C15: on a constant positive price of 3 or more points calculateLogReturns
\* returns zeros only, and calculateMetrics returns variance, volatility and
\* annualizedVolatility all equal to 0, whatever the period label.
C15_ConstantPriceMetrics ==
  (pc = "returned" /\ ConstantSeries /\ Len(priceData) >= 3)
    => /\ call.op = "calculateLogReturns"
            => /\ outcome.ok
               /\ \A i \in 1..Len(outcome.value) : outcome.value[i] = Zero
       /\ call.op = "calculateMetrics"
            => /\ outcome.ok
               /\ outcome.value.variance = Zero
               /\ outcome.value.volatility = Zero
               /\ outcome.value.annualizedVolatility = Zero

C15_Witness ==
  /\ Returned("calculateMetrics")
  /\ ConstantSeries
  /\ Len(priceData) > 3
  /\ call.period = "1d"
  /\ outcome.ok
  /\ outcome.value.annualizedVolatility = Zero

\* the returns, lambda and factor of the scenario
ScenarioReturns == <<Dec(1, -2), Dec(-2, -2), Dec(15, -3)>>

EWMAScenario ==
  /\ Returned("calculateEWMADVOL")
  /\ call.logReturns = ScenarioReturns
  /\ call.lambda = Dec(94, -2)
  /\ call.annualizationFactor = Num(365)

\* |a - b| < tolerance
Near(a, b, tolerance) == Lt(MathAbs(Sub(a, b)), tolerance)

\* the first two variances of the scenario, on which claim and code agree
ScenarioHead(variances) ==
  /\ Len(variances) = 3
  /\ Near(variances[1], Dec(1, -4), Dec(1, -9))
  /\ Near(variances[2], Dec(118, -6), Dec(1, -9))

\* C16 (as claimed): EWMA with lambda 0.94 and factor 365 on the returns
\* [0.01, -0.02, 0.015] gives the variances 0.0001, 0.000118, 0.0001262 and
\* dvol = sqrt(0.0001262 * 365) * 100, about 21.45.
C16_EWMAScenarioAsStated ==
  EWMAScenario
    => /\ outcome.ok
       /\ ScenarioHead(EWMAVariances(call.logReturns, call.lambda))
       /\ Near(EWMAVariances(call.logReturns, call.lambda)[3], Dec(1262, -7),
               Dec(1, -9))
       /\ Near(outcome.value.dvol, Dec(2145, -2), Dec(1, -2))

\* C16 (amended): the same application gives the variances 0.0001, 0.000118,
\* 0.00012442 and dvol = sqrt(0.00012442 * 365) * 100, about 21.31.
C16_EWMAScenario ==
  EWMAScenario
    => /\ outcome.ok
       /\ ScenarioHead(EWMAVariances(call.logReturns, call.lambda))
       /\ Near(EWMAVariances(call.logReturns, call.lambda)[3], Dec(12442, -8),
               Dec(1, -9))
       /\ Near(outcome.value.dvol, Dec(2131, -2), Dec(1, -2))

C16_Witness ==
  /\ EWMAScenario
  /\ outcome.ok
  /\ Near(outcome.value.dvol, Dec(2131, -2), Dec(1, -2))

\* the log returns of the series of the call
ReturnsOfSeries == calculateLogReturns(PricesOf(priceData)).value

\* the array volatilities of calculateSimpleDVOL after its loop, as a result
VolatilitiesOfCall ==
  SimpleLoop(ReturnsOfSeries, WindowSizeOfCall, WindowSizeOfCall - 1, <<>>)

\* the simple method is called on a valid series of at least windowSize returns
SimpleWindowFits ==
  /\ Returned("calculateDVOL")
  /\ call.method = "simple"
  /\ PassesValidation
  /\ Len(priceData) - 1 >= WindowSizeOfCall

\* the volatilities are n - w sample deviations, the k-th (from 0) of the w
\* returns that end at index w - 1 + k, and dvol is their mean, annualized
RollingResult(volatilities, w, factor) ==
  /\ Len(volatilities) = Len(priceData) - w
  /\ \A k \in 0..(Len(volatilities) - 1) :
       /\ calculateStandardDeviation(SubSeq(ReturnsOfSeries, k + 1, k + w)).ok
       /\ volatilities[k + 1]
            = calculateStandardDeviation(SubSeq(ReturnsOfSeries, k + 1, k + w)).value
  /\ outcome.value.dvol
       = Mul(Mul(calculateMean(volatilities).value, MathSqrt(factor)), Num(100))

\* C17 (as claimed): the simple method with window w on n points, n - 1 >= w,
\* computes n - w volatilities, the k-th from the w consecutive returns ending
\* at index w - 1 + k, and returns dvol = mean(vols) * sqrt(factor) * 100.
C17_SimpleRollingWindows ==
  SimpleWindowFits
    => /\ outcome.ok
       /\ VolatilitiesOfCall.ok
       /\ RollingResult(VolatilitiesOfCall.value, WindowSizeOfCall,
                        Option(call.options, "annualizationFactor", Num(365)))

\* what the operation of call c returns on the series, from its arguments alone
ResultOf(c, series) ==
  CASE c.op = "calculateLogReturns" -> calculateLogReturns(PricesOf(series))
    [] c.op = "calculateMetrics" -> calculateMetrics(series, c.period)
    [] c.op = "calculateDVOL" -> calculateDVOL(series, c.method, c.options)
    [] c.op = "calculateDiagnostics" -> calculateDiagnostics(series)
    [] OTHER -> NoOutcome

ProviderReturned ==
  pc = "returned" /\ call.op \in {"getCurrentPrice", "fetchPriceData"}

\* some HTTP request of the call failed
SomeRequestFailed ==
  \E i \in DOMAIN call.answers : call.answers[i] \in FailedAnswers

\* { success: false, error: <message> } and nothing else
FailureValue(response) ==
  /\ DOMAIN response = {"success", "error"}
  /\ ~response.success
  /\ response.error # ""

\* C19 (as claimed): getCurrentPrice and fetchPriceData of a provider raise
\* nothing, and a call of which an HTTP request failed (status not 2xx,
\* content type not JSON, body not JSON, network exception) returns
\* { success: false, error } with no data.
C19_FailuresReturnedAsValues ==
  ProviderReturned
    => /\ outcome.ok
       /\ SomeRequestFailed => FailureValue(outcome.value)

\* C20 (as claimed): the data fetchPriceData returns with success = true has
\* 2 points or more, every price a finite number above 0 and every timestamp
\* a number above 0.
C20_FetchedSeriesValid ==
  (ProviderReturned /\ call.op = "fetchPriceData" /\ outcome.ok
     /\ outcome.value.success)
    => /\ Len(outcome.value.data) >= 2
       /\ \A i \in 1..Len(outcome.value.data) :
            /\ outcome.value.data[i].price.t = "number"
            /\ NumberIsFinite(outcome.value.data[i].price.number)
            /\ Lt(Zero, outcome.value.data[i].price.number)
            /\ outcome.value.data[i].timestamp.t = "number"
            /\ Lt(Zero, outcome.value.data[i].timestamp.number)

\* the mean of the rolling volatilities of the call is 0
ZeroMeanVolatility ==
  /\ VolatilitiesOfCall.ok
  /\ calculateMean(VolatilitiesOfCall.value).ok
  /\ calculateMean(VolatilitiesOfCall.value).value = Zero

\* C24 (as claimed): when the simple method returns a result of which the mean
\* of the rolling volatilities is 0, as on a constant price with more returns
\* than windowSize, the confidence of the result is exactly 100.
C24_ZeroMeanConfidence ==
  (SimpleWindowFits /\ outcome.ok /\ ZeroMeanVolatility)
    => outcome.value.confidence = Num(100)

\* the method parameters of the call are not valid for its method
ParametersInvalid ==
  \/ /\ call.method = "ewma"
     /\ ~(LambdaOfCall.m > 0 /\ Lt(LambdaOfCall, One))
  \/ /\ call.method = "garch"
     /\ \/ GarchParamsOfCall.omega.m <= 0
        \/ GarchParamsOfCall.alpha.m < 0
        \/ GarchParamsOfCall.beta.m < 0
        \/ ~Lt(Add(GarchParamsOfCall.alpha, GarchParamsOfCall.beta), One)

\* the errors thrown for a series that is too short for the validation
TooShortErrors ==
  {"Price data cannot be empty",
   "Need at least 2 price points for DVOL calculation",
   "method requires at least minDataPoints data points"}

\* C25: calculateDVOL tests the length of the series first, the prices second,
\* the parameters of the method third and the data the method needs last: a
\* too-short series throws the insufficient-data error whatever its prices and
\* the parameters are, a long-enough series with an invalid price throws the
\* invalid-price error whatever the parameters are, and a valid series with
\* invalid parameters throws the parameter error even when it has too few
\* returns for the method.
C25_ChecksInOrder ==
  (Returned("calculateDVOL") /\ call.method \in Methods)
    => /\ Len(priceData) < RequiredPoints(call.method)
            => ~outcome.ok /\ outcome.error \in TooShortErrors
       /\ (Len(priceData) >= RequiredPoints(call.method) /\ SomePriceInvalid)
            => /\ ~outcome.ok
               /\ outcome.error = "All prices must be positive finite numbers"
       /\ (PassesValidation /\ ParametersInvalid)
            => /\ ~outcome.ok
               /\ outcome.error = IF call.method = "ewma" THEN LambdaError
                                  ELSE GarchError

C25_Witness ==
  /\ Returned("calculateDVOL")
  /\ call.method = "ewma"
  /\ Len(priceData) = 2
  /\ SomePriceInvalid
  /\ ParametersInvalid
  /\ ~outcome.ok
  /\ outcome.error = "method requires at least minDataPoints data points"

\* C26 (as claimed): the simple method returns a result on every valid series
\* and every windowSize >= 2 with at least windowSize returns, the series of
\* exactly windowSize returns, which has a single window, included.
C26_SimpleWindowSuffices ==
  (SimpleWindowFits /\ WindowSizeOfCall >= 2) => outcome.ok

GarchRuns ==
  /\ Returned("calculateDVOL")
  /\ call.method = "garch"
  /\ AllPricesValid
  /\ ~ParametersInvalid
  /\ Len(priceData) >= 11

\* the variances and standardizedResiduals of calculateGARCHDVOL after its loop
GarchLoopOfCall ==
  GARCHLoop(ReturnsOfSeries, GarchParamsOfCall, 1,
            <<calculateVariance(ReturnsOfSeries).value>>, <<>>)

\* var_0 is the sample variance, var_t >= omega > 0 follows the recurrence for
\* t >= 1, and every residual is returns[t] / sqrt(var_t), a finite number
GarchSeriesPositive(returns, params, variances, residuals) ==
  /\ Len(variances) = Len(returns)
  /\ Len(residuals) = Len(returns) - 1
  /\ variances[1] = calculateVariance(returns).value
  /\ \A t \in 1..(Len(returns) - 1) :
       /\ variances[t + 1]
            = Add(Add(params.omega, Mul(params.alpha, Square(returns[t]))),
                  Mul(params.beta, variances[t]))
       /\ Lt(Zero, variances[t + 1])
       /\ Le(params.omega, variances[t + 1])
       /\ NumberIsFinite(residuals[t])
       /\ residuals[t] = Div(returns[t + 1], MathSqrt(variances[t + 1]))

\* C28: in the GARCH recurrence every conditional variance var_t, t >= 1, is at
\* least omega and so above 0, no standardized residual divides by zero, and
\* there are len(returns) variances and len(returns) - 1 residuals.
C28_GarchVariancesPositive ==
  GarchRuns
    => /\ outcome.ok
       /\ GarchSeriesPositive(ReturnsOfSeries, GarchParamsOfCall,
                              GarchLoopOfCall.variances,
                              GarchLoopOfCall.standardizedResiduals)
       /\ outcome.value.dvol
            = Mul(MathSqrt(Mul(GarchLoopOfCall.variances[Len(ReturnsOfSeries)],
                               Option(call.options, "annualizationFactor",
                                      Num(365)))),
                  Num(100))

C28_Witness ==
  /\ GarchRuns
  /\ ConstantSeries
  /\ GarchParamsOfCall.alpha = Zero
  /\ outcome.ok
  /\ Lt(Zero, outcome.value.dvol)

\* the numbers of data points getPeriodsPerYear is sampled at
SampleCounts == {1, 2, 11, 30, 31, 365}

\* the periods per year the claim states
StatedPeriodsPerYear(period, nPoints) ==
  CASE period = "1d" -> 8760
    [] period \in {"30d", "365d"} -> 365
    [] OTHER -> IF nPoints * 12 < 365 THEN nPoints * 12 ELSE 365

\* C29: getPeriodsPerYear gives 8760 for '1d', 365 for '30d' and '365d' and
\* min(365, nPoints * 12) for another label, a positive number of at most 8760
\* for nPoints >= 1; calculateMetrics annualizes with the periods of the
\* number of returns, len(series) - 1.
C29_PeriodsPerYear ==
  /\ \A period \in Periods, nPoints \in SampleCounts :
       /\ getPeriodsPerYear(period, nPoints)
            = StatedPeriodsPerYear(period, nPoints)
       /\ getPeriodsPerYear(period, nPoints) > 0
       /\ getPeriodsPerYear(period, nPoints) <= 8760
  /\ (Returned("calculateMetrics") /\ outcome.ok)
       => outcome.value.annualizedVolatility
            = Mul(Mul(MathSqrt(calculateVariance(ReturnsOfSeries).value),
                      MathSqrt(Num(StatedPeriodsPerYear(call.period,
                                                       Len(priceData) - 1)))),
                  Num(100))

C29_Witness ==
  /\ Returned("calculateMetrics")
  /\ call.period = "7d"
  /\ Len(priceData) = 3
  /\ outcome.ok
  /\ Lt(Zero, outcome.value.annualizedVolatility)

\* the lags the autocorrelation is taken at
Lags == {1, 2, 3}

\* the mean of the whole series
MeanOf(returns) == Div(SumFrom(returns, 1, Zero), Num(Len(returns)))

\* N: the sum over i = 0..n-lag-1 of (r_i - mean)(r_{i+lag} - mean)
StatedNumerator(returns, lag) ==
  SumFrom([i \in 1..(Len(returns) - lag) |->
             Mul(Sub(returns[i], MeanOf(returns)),
                 Sub(returns[i + lag], MeanOf(returns)))], 1, Zero)

\* D: the sum over all n values of (r_i - mean)^2
StatedDenominator(returns) ==
  SumFrom([i \in 1..Len(returns) |->
             Mul(Sub(returns[i], MeanOf(returns)),
                 Sub(returns[i], MeanOf(returns)))], 1, Zero)

\* N / D, and 0 when n <= lag or D = 0
StatedAutocorrelation(returns, lag) ==
  IF Len(returns) <= lag THEN Zero
  ELSE IF StatedDenominator(returns) = Zero THEN Zero
  ELSE Div(StatedNumerator(returns, lag), StatedDenominator(returns))

\* the element-wise squares of the returns
SquaredReturns(returns) == [i \in 1..Len(returns) |-> Square(returns[i])]

\* C30: calculateAutocorrelation(returns, lag) is N / D with the mean of the
\* whole series, N over i = 0..n-lag-1 and D over all n values, and 0 when D is
\* 0 or n <= lag; the heteroskedasticity of calculateDiagnostics is the
\* autocorrelation at lag 1 of the squared returns.
C30_Autocorrelation ==
  (Returned("calculateDiagnostics") /\ Len(priceData) >= 2 /\ AllPricesValid)
    => /\ \A lag \in Lags :
            /\ calculateAutocorrelation(ReturnsOfSeries, lag).ok
            /\ calculateAutocorrelation(ReturnsOfSeries, lag).value
                 = StatedAutocorrelation(ReturnsOfSeries, lag)
       /\ outcome.ok
            => /\ outcome.value.autocorrelation
                    = StatedAutocorrelation(ReturnsOfSeries, 1)
               /\ outcome.value.heteroskedasticity
                    = StatedAutocorrelation(SquaredReturns(ReturnsOfSeries), 1)

C30_Witness ==
  /\ Returned("calculateDiagnostics")
  /\ AllPricesValid
  /\ Len(priceData) > 4
  /\ outcome.ok
  /\ outcome.value.autocorrelation # Zero
  /\ outcome.value.heteroskedasticity # Zero
  /\ outcome.value.autocorrelation # outcome.value.heteroskedasticity

\* the current-price request of the fetch answers with a price above 0
CurrentPriceSucceeds ==
  /\ getCurrentPrice(call.provider, call.symbol, call.answers[1]).ok
  /\ getCurrentPrice(call.provider, call.symbol, call.answers[1]).value.success
  /\ Lt(Zero,
        getCurrentPrice(call.provider, call.symbol, call.answers[1]).value.data)

\* C22 (as claimed): fetchPriceData of Jupiter returns success = true with a
\* price series for '1d', for '30d' and for '365d' whenever the current-price
\* request of the symbol succeeds with a positive price.
C22_JupiterSupportedPeriods ==
  (Returned("fetchPriceData") /\ call.provider = "Jupiter"
     /\ call.period \in {"1d", "30d", "365d"} /\ CurrentPriceSucceeds)
    => /\ outcome.ok
       /\ outcome.value.success
       /\ Len(outcome.value.data) >= 1

\* the time between two requests
Apart(a, b) == IF a.at < b.at THEN b.at - a.at ELSE a.at - b.at

\* C21 (as claimed): any two HTTP requests of one provider instance start at
\* least rateLimitDelay milliseconds apart (500 for Jupiter, 1100 for
\* CoinGecko), whatever the interleaving of the calls, calls started while an
\* earlier one still waits included.
C21_RequestsSpaced ==
  \A a, b \in DOMAIN requests :
    a # b => Apart(requests[a], requests[b]) >= rateLimitDelay(instance)

\* a call of the SDK has ended after a response that was not OK arrived
SDKNotOk ==
  /\ pc = "returned"
  /\ call.op \in SDKMethods
  /\ call.response # NoResponse
  /\ ~ResponseOk(call.response)

\* C23 (as claimed): every call of the SDK whose response is not OK, and
\* which is not aborted by its timer, rejects with an error of message
\* 'CoinDesk API error <status>: ...', whatever the body is, a body that is
\* not JSON included, and the timer of the request is cleared when the call
\* ends, by success, API error or abort.
C23_SDKErrors ==
  /\ (SDKNotOk /\ timeoutId # "fired")
       => /\ ~outcome.ok
          /\ outcome.error.message = "CoinDesk API error"
          /\ outcome.error.status = call.response.status
  /\ (pc = "returned" /\ call.op \in SDKMethods) => timeoutId # "armed"

====
